---- MODULE Spec2Model ----
(***************************************************************************)
(* A model of ctaes, the constant-time bit-sliced AES of bitcoin-core.     *)
(*                                                                         *)
(* src/ctaes.c holds the implementation with separate SubBytes and         *)
(* InvSubBytes; src/unnamed/part_000 is the variant of the same file that  *)
(* merges them behind a direction flag (SubBytes(s, inv)).                 *)
(*                                                                         *)
(* Representation.  A C unsigned integer (uint8_t, uint16_t, uint32_t, or  *)
(* an int holding a promoted one) is the set of the positions of its one   *)
(* bits, bit 0 being the least significant: 0x8005 is {0, 2, 15}.  Every   *)
(* bitwise operator of C is then exact at any width: & is intersection,    *)
(* | union, ^ symmetric difference, ~ complement within the width, << and  *)
(* >> move the positions, and a conversion to a narrower type drops the    *)
(* positions at or above its width.  Bytes in caller memory (keys, blocks) *)
(* are numbers 0..255.  An AES_state is a function 0..7 -> uint16_t.       *)
(***************************************************************************)
EXTENDS Integers, Sequences, FiniteSets, TLC

(***************************************************************************)
(* Bitwise arithmetic of the C integer types.                              *)
(***************************************************************************)
\* The explicit set of the elements of x.
Norm(x) == {p \in x : TRUE}

\* The value v, the tuple t of intermediate values being computed first
\* (evaluation order only: After(t, v) = v).
After(t, v) == IF t = t THEN v ELSE v

\* Local variables: Bind([x \in {e}, y \in {d} |-> body]) is body with x and y
\* standing for the values of e and d, as after the C statements
\* "T x = e; T y = d;" (the function has the one argument <<e, d>>).
Bind(f) == CHOOSE v \in {g[CHOOSE x \in DOMAIN g : TRUE] : g \in {f}} : TRUE

\* The bits of a number 0..255.
ByteBits == [n \in 0..255 |-> {p \in 0..7 : (n \div (2 ^ p)) % 2 = 1}]

\* The number a uint8_t stands for.
ByteVal(v) ==
    (IF 0 \in v THEN 1 ELSE 0) + (IF 1 \in v THEN 2 ELSE 0)
  + (IF 2 \in v THEN 4 ELSE 0) + (IF 3 \in v THEN 8 ELSE 0)
  + (IF 4 \in v THEN 16 ELSE 0) + (IF 5 \in v THEN 32 ELSE 0)
  + (IF 6 \in v THEN 64 ELSE 0) + (IF 7 \in v THEN 128 ELSE 0)

\* A constant below 2^16 as a C integer.
Bits(n) == {p \in 0..15 : (n \div (2 ^ p)) % 2 = 1}

And(a, b) == Norm(a \cap b)

Or(a, b) == Norm(a \cup b)

Xor(a, b) == UNION {{p \in x[1] \cup x[2] : ~(p \in x[1] /\ p \in x[2])} : x \in {<<a, b>>}}

\* x << n and x >> n, before any narrowing.
Shl(x, n) == {p + n : p \in x}

Shr(x, n) == {p - n : p \in {q \in x : q >= n}}

\* Conversion to uint8_t, uint16_t, uint32_t.
U8(x) == {p \in x : p < 8}

U16(x) == {p \in x : p < 16}

U32(x) == {p \in x : p < 32}

\* (uint16_t) ~x
Not16(x) == Norm((0..15) \ x)

\* ((uint32_t)b0) << 24 | ((uint32_t)b1) << 16 | ((uint32_t)b2) << 8 | b3, bytes as numbers
BytesToWord(b0, b1, b2, b3) ==
  Or(Or(Or(Shl(ByteBits[b0], 24), Shl(ByteBits[b1], 16)), Shl(ByteBits[b2], 8)), ByteBits[b3])

(***************************************************************************)
(* Bit-slice codec.                                                        *)
(***************************************************************************)
\* A faulty WordBytes: the low byte first, v = w; w >>= 8.
WordBytesLowFirst(w) ==
  <<U8(w), U8(Shr(w, 8)), U8(Shr(w, 16)), U8(Shr(w, 24))>>

\* The four values v = w >> 24 that the r loop of LoadWords sees, w <<= 8 after each.
WordBytes(w) ==
  <<U8(Shr(w, 24)),
    U8(Shr(U32(Shl(w, 8)), 24)),
    U8(Shr(U32(Shl(w, 16)), 24)),
    U8(Shr(U32(Shl(w, 24)), 24))>>

\* A faulty ClearSlices: the clearing loop is missing.
KeepSlices(s) == s

\* for (b = 0; b < 8; b++) s->slice[b] = 0;
ClearSlices(s) == [b \in 0..7 |-> {}]

\* LoadWords(s, w0, w1, w2, w3), s being what *s held before the call.
\* After the clearing loop: for c, for r, for i: slice[i] |= (v & 1) << (r * 4 + c); v >>= 1,
\* so bit r*4+c of slice[i] receives bit i of the byte v of column c, row r.
LoadWords(s, w0, w1, w2, w3) ==
  LET w(c) == IF (c \div 2) % 2 # 0
              THEN (IF c % 2 # 0 THEN w3 ELSE w2)
              ELSE (IF c % 2 # 0 THEN w1 ELSE w0)
      z == ClearSlices(s)
  IN  Bind([v \in {<<WordBytes(w(0)), WordBytes(w(1)), WordBytes(w(2)), WordBytes(w(3))>>} |->
      [i \in 0..7 |-> Or(z[i], {k \in 0..15 : i \in v[(k % 4) + 1][(k \div 4) + 1]})]])

\* LoadBytes(s, data16), s being what *s held before the call.
LoadBytes(s, data16) ==
  LET w0 == BytesToWord(data16[0], data16[1], data16[2], data16[3])
      w1 == BytesToWord(data16[4], data16[5], data16[6], data16[7])
      w2 == BytesToWord(data16[8], data16[9], data16[10], data16[11])
      w3 == BytesToWord(data16[12], data16[13], data16[14], data16[15])
  IN  LoadWords(s, w0, w1, w2, w3)

\* The byte SaveBytes stores at data16[c * 4 + r]:
\* v |= ((s->slice[b] >> (r * 4 + c)) & 1) << b for b = 0..7.
SaveByte(s, c, r) == ByteVal({b \in 0..7 : (r * 4 + c) \in s[b]})

SaveBytes(s) == [k \in 0..15 |-> SaveByte(s, k \div 4, k % 4)]

(***************************************************************************)
(* S-box: the Boyar-Peralta gate network, gate for gate.                   *)
(***************************************************************************)
SubBytes(s) ==
  Bind([U0 \in {s[7]},
        U1 \in {s[6]},
        U2 \in {s[5]},
        U3 \in {s[4]},
        U4 \in {s[3]},
        U5 \in {s[2]},
        U6 \in {s[1]},
        U7 \in {s[0]} |->
  Bind([T1 \in {Xor(U0, U3)},
        T2 \in {Xor(U0, U5)},
        T3 \in {Xor(U0, U6)},
        T4 \in {Xor(U3, U5)},
        T5 \in {Xor(U4, U6)},
        T7 \in {Xor(U1, U2)},
        T11 \in {Xor(U1, U5)},
        T12 \in {Xor(U2, U5)},
        T18 \in {Xor(U3, U7)},
        T21 \in {Xor(U6, U7)},
        D \in {U7} |->
  Bind([T6 \in {Xor(T1, T5)},
        T9 \in {Xor(U7, T7)},
        T13 \in {Xor(T3, T4)},
        T15 \in {Xor(T5, T11)},
        T16 \in {Xor(T5, T12)},
        T19 \in {Xor(T7, T18)},
        T22 \in {Xor(T7, T21)},
        T27 \in {Xor(T1, T12)} |->
  Bind([T8 \in {Xor(U7, T6)},
        T10 \in {Xor(T6, T7)},
        T14 \in {Xor(T6, T11)},
        T17 \in {Xor(T9, T16)},
        T20 \in {Xor(T1, T19)},
        T23 \in {Xor(T2, T22)},
        T26 \in {Xor(T3, T16)},
        M1 \in {And(T13, T6)},
        M6 \in {And(T3, T16)},
        M11 \in {And(T1, T15)} |->
  Bind([T24 \in {Xor(T2, T10)},
        T25 \in {Xor(T20, T17)},
        M13 \in {Xor(And(T4, T27), M11)},
        M15 \in {Xor(And(T2, T10), M11)} |->
  Bind([M20 \in {Xor(Xor(Xor(T14, M1), And(T23, T8)), M13)},
        M21 \in {Xor(Xor(Xor(And(T19, D), M1), T24), M15)},
        M22 \in {Xor(Xor(Xor(T26, M6), And(T22, T9)), M13)},
        M23 \in {Xor(Xor(Xor(And(T20, T17), M6), M15), T25)} |->
  Bind([M25 \in {And(M22, M20)} |->
  Bind([M37 \in {Xor(M21, And(Xor(M20, M21), Xor(M23, M25)))},
        M38 \in {Xor(Xor(M20, M25), Or(M21, And(M20, M23)))},
        M39 \in {Xor(M23, And(Xor(M22, M23), Xor(M21, M25)))},
        M40 \in {Xor(Xor(M22, M25), Or(M23, And(M21, M22)))} |->
  Bind([M41 \in {Xor(M38, M40)},
        M42 \in {Xor(M37, M39)},
        M43 \in {Xor(M37, M38)},
        M44 \in {Xor(M39, M40)},
        M47 \in {And(M40, T8)},
        M48 \in {And(M39, D)},
        M50 \in {And(M38, T9)},
        M51 \in {And(M37, T17)},
        M56 \in {And(M40, T23)},
        M57 \in {And(M39, T19)},
        M59 \in {And(M38, T22)},
        M60 \in {And(M37, T20)} |->
  Bind([M45 \in {Xor(M42, M41)},
        M46 \in {And(M44, T6)},
        M49 \in {And(M43, T16)},
        M52 \in {And(M42, T15)},
        M54 \in {And(M41, T10)},
        M55 \in {And(M44, T13)},
        M58 \in {And(M43, T3)},
        M61 \in {And(M42, T1)},
        M63 \in {And(M41, T2)},
        L1 \in {Xor(M50, M56)},
        L8 \in {Xor(M51, M59)},
        L12 \in {Xor(M48, M51)} |->
  Bind([M53 \in {And(M45, T27)},
        M62 \in {And(M45, T4)},
        L2 \in {Xor(M46, M48)},
        L3 \in {Xor(M47, M55)},
        L4 \in {Xor(M54, M58)},
        L5 \in {Xor(M49, M61)},
        L14 \in {Xor(M52, M61)},
        L15 \in {Xor(M55, L1)},
        L17 \in {Xor(M57, L1)},
        L18 \in {Xor(M58, L8)} |->
  Bind([L0 \in {Xor(M61, M62)},
        L6 \in {Xor(M62, L5)},
        L7 \in {Xor(M46, L3)},
        L9 \in {Xor(M52, M53)},
        L10 \in {Xor(M53, L4)},
        L11 \in {Xor(M60, L2)},
        L19 \in {Xor(M63, L4)},
        L22 \in {Xor(L3, L12)},
        L23 \in {Xor(L18, L2)} |->
  Bind([L13 \in {Xor(M50, L0)},
        L16 \in {Xor(M56, L0)},
        L20 \in {Xor(L0, L1)},
        L21 \in {Xor(L1, L7)},
        L24 \in {Xor(L15, L9)},
        L25 \in {Xor(L6, L10)},
        L26 \in {Xor(L7, L9)},
        L27 \in {Xor(L8, L10)},
        L28 \in {Xor(L11, L14)},
        L29 \in {Xor(L11, L17)} |->
  Bind([out \in {<<Not16(Xor(L6, L23)), Not16(Xor(L13, L27)), Xor(L25, L29), Xor(L20, L22), Xor(L6, L21), Not16(Xor(L19, L28)), Not16(Xor(L16, L26)), Xor(L6, L24)>>} |->
  [b \in 0..7 |-> out[b + 1]]])])])])])])])])])])])])])])

InvSubBytes(s) ==
  Bind([U0 \in {s[7]},
        U1 \in {s[6]},
        U2 \in {s[5]},
        U3 \in {s[4]},
        U4 \in {s[3]},
        U5 \in {s[2]},
        U6 \in {s[1]},
        U7 \in {s[0]} |->
  Bind([T23 \in {Xor(U0, U3)},
        T22 \in {Not16(Xor(U1, U3))},
        T2 \in {Not16(Xor(U0, U1))},
        T1 \in {Xor(U3, U4)},
        T24 \in {Not16(Xor(U4, U7))},
        R5 \in {Xor(U6, U7)},
        R13 \in {Xor(U1, U6)},
        R17 \in {Not16(Xor(U2, U5))},
        R18 \in {Not16(Xor(U5, U6))},
        R19 \in {Not16(Xor(U2, U4))} |->
  Bind([T8 \in {Not16(Xor(U1, T23))},
        T19 \in {Xor(T22, R5)},
        T9 \in {Not16(Xor(U7, T1))},
        T10 \in {Xor(T2, T24)},
        T13 \in {Xor(T2, R5)},
        T3 \in {Xor(T1, R5)},
        T25 \in {Not16(Xor(U2, T1))},
        T20 \in {Xor(T24, R13)},
        D \in {Xor(U0, R17)},
        T6 \in {Xor(T22, R17)},
        T16 \in {Xor(R13, R19)},
        T27 \in {Xor(T1, R18)} |->
  Bind([T17 \in {Not16(Xor(U2, T19))},
        T4 \in {Xor(U4, T8)},
        T15 \in {Xor(T10, T27)},
        T14 \in {Xor(T10, R18)},
        T26 \in {Xor(T3, T16)},
        M1 \in {And(T13, T6)},
        M6 \in {And(T3, T16)} |->
  Bind([M11 \in {And(T1, T15)} |->
  Bind([M13 \in {Xor(And(T4, T27), M11)},
        M15 \in {Xor(And(T2, T10), M11)} |->
  Bind([M20 \in {Xor(Xor(Xor(T14, M1), And(T23, T8)), M13)},
        M21 \in {Xor(Xor(Xor(And(T19, D), M1), T24), M15)},
        M22 \in {Xor(Xor(Xor(T26, M6), And(T22, T9)), M13)},
        M23 \in {Xor(Xor(Xor(And(T20, T17), M6), M15), T25)} |->
  Bind([M25 \in {And(M22, M20)} |->
  Bind([M37 \in {Xor(M21, And(Xor(M20, M21), Xor(M23, M25)))},
        M38 \in {Xor(Xor(M20, M25), Or(M21, And(M20, M23)))},
        M39 \in {Xor(M23, And(Xor(M22, M23), Xor(M21, M25)))},
        M40 \in {Xor(Xor(M22, M25), Or(M23, And(M21, M22)))} |->
  Bind([M41 \in {Xor(M38, M40)},
        M42 \in {Xor(M37, M39)},
        M43 \in {Xor(M37, M38)},
        M44 \in {Xor(M39, M40)},
        M47 \in {And(M40, T8)},
        M48 \in {And(M39, D)},
        M50 \in {And(M38, T9)},
        M51 \in {And(M37, T17)},
        M56 \in {And(M40, T23)},
        M57 \in {And(M39, T19)},
        M59 \in {And(M38, T22)},
        M60 \in {And(M37, T20)} |->
  Bind([M45 \in {Xor(M42, M41)},
        M46 \in {And(M44, T6)},
        M49 \in {And(M43, T16)},
        M52 \in {And(M42, T15)},
        M54 \in {And(M41, T10)},
        M55 \in {And(M44, T13)},
        M58 \in {And(M43, T3)},
        M61 \in {And(M42, T1)},
        M63 \in {And(M41, T2)},
        P3 \in {Xor(M47, M50)},
        P4 \in {Xor(M48, M56)} |->
  Bind([M53 \in {And(M45, T27)},
        M62 \in {And(M45, T4)},
        P0 \in {Xor(M52, M61)},
        P1 \in {Xor(M58, M59)},
        P5 \in {Xor(M46, M51)},
        P6 \in {Xor(M49, M60)},
        P9 \in {Xor(M55, M63)},
        P10 \in {Xor(M57, P4)},
        P12 \in {Xor(M46, M48)},
        P13 \in {Xor(M49, M51)},
        P15 \in {Xor(M54, M59)},
        P16 \in {Xor(M57, M61)} |->
  Bind([P2 \in {Xor(M54, M62)},
        P7 \in {Xor(P0, P1)},
        P8 \in {Xor(M50, M53)},
        P11 \in {Xor(P0, P3)},
        P14 \in {Xor(M49, M62)},
        P18 \in {Xor(M63, P5)},
        P20 \in {Xor(P4, P6)},
        P25 \in {Xor(P6, P10)} |->
  Bind([P17 \in {Xor(M58, P2)},
        P19 \in {Xor(P2, P3)},
        P22 \in {Xor(P2, P7)},
        P23 \in {Xor(P7, P8)},
        P24 \in {Xor(P5, P7)},
        P26 \in {Xor(P9, P11)},
        P27 \in {Xor(P10, P18)},
        P28 \in {Xor(P11, P25)},
        P29 \in {Xor(P15, P20)} |->
  Bind([out \in {<<Xor(P9, P16), Xor(P14, P23), Xor(P19, P24), Xor(P23, P27), Xor(P12, P22), Xor(P17, P28), Xor(P26, P29), Xor(P13, P22)>>} |->
  [b \in 0..7 |-> out[b + 1]]])])])])])])])])])])])])])])])

\* A faulty SubBytesInv: the direction flag is ignored.
SubBytesInvForward(s, inv) == SubBytes(s)

SubBytesInv(s, inv) ==
  Bind([U0 \in {s[7]},
        U1 \in {s[6]},
        U2 \in {s[5]},
        U3 \in {s[4]},
        U4 \in {s[3]},
        U5 \in {s[2]},
        U6 \in {s[1]},
        U7 \in {s[0]} |->
  Bind([pre \in {IF inv # 0
             THEN \* undo linear postprocessing (T5, T7, T11, T12, T18, T21 stay unassigned and unread)
               Bind([T23 \in {Xor(U0, U3)},
                     T22 \in {Not16(Xor(U1, U3))},
                     T2 \in {Not16(Xor(U0, U1))},
                     T1 \in {Xor(U3, U4)},
                     T24 \in {Not16(Xor(U4, U7))},
                     R5 \in {Xor(U6, U7)},
                     R13 \in {Xor(U1, U6)},
                     R17 \in {Not16(Xor(U2, U5))},
                     R18 \in {Not16(Xor(U5, U6))},
                     R19 \in {Not16(Xor(U2, U4))} |->
               Bind([T8 \in {Not16(Xor(U1, T23))},
                     T19 \in {Xor(T22, R5)},
                     T9 \in {Not16(Xor(U7, T1))},
                     T10 \in {Xor(T2, T24)},
                     T13 \in {Xor(T2, R5)},
                     T3 \in {Xor(T1, R5)},
                     T25 \in {Not16(Xor(U2, T1))},
                     T20 \in {Xor(T24, R13)},
                     D \in {Xor(U0, R17)},
                     T6 \in {Xor(T22, R17)},
                     T16 \in {Xor(R13, R19)},
                     T27 \in {Xor(T1, R18)} |->
               Bind([T17 \in {Not16(Xor(U2, T19))},
                     T4 \in {Xor(U4, T8)},
                     T15 \in {Xor(T10, T27)},
                     T14 \in {Xor(T10, R18)},
                     T26 \in {Xor(T3, T16)} |->
               <<T1, T2, T3, T4, T6, T8, T9, T10, T13, T14, T15, T16, T17, T19, T20, T22, T23, T24, T25, T26, T27, D>>])])])
             ELSE \* linear preprocessing
               Bind([T1 \in {Xor(U0, U3)},
                     T2 \in {Xor(U0, U5)},
                     T3 \in {Xor(U0, U6)},
                     T4 \in {Xor(U3, U5)},
                     T5 \in {Xor(U4, U6)},
                     T7 \in {Xor(U1, U2)},
                     T11 \in {Xor(U1, U5)},
                     T12 \in {Xor(U2, U5)},
                     T18 \in {Xor(U3, U7)},
                     T21 \in {Xor(U6, U7)},
                     D \in {U7} |->
               Bind([T6 \in {Xor(T1, T5)},
                     T9 \in {Xor(U7, T7)},
                     T13 \in {Xor(T3, T4)},
                     T15 \in {Xor(T5, T11)},
                     T16 \in {Xor(T5, T12)},
                     T19 \in {Xor(T7, T18)},
                     T22 \in {Xor(T7, T21)},
                     T27 \in {Xor(T1, T12)} |->
               Bind([T8 \in {Xor(U7, T6)},
                     T10 \in {Xor(T6, T7)},
                     T14 \in {Xor(T6, T11)},
                     T17 \in {Xor(T9, T16)},
                     T20 \in {Xor(T1, T19)},
                     T23 \in {Xor(T2, T22)},
                     T26 \in {Xor(T3, T16)} |->
               Bind([T24 \in {Xor(T2, T10)},
                     T25 \in {Xor(T20, T17)} |->
               <<T1, T2, T3, T4, T6, T8, T9, T10, T13, T14, T15, T16, T17, T19, T20, T22, T23, T24, T25, T26, T27, D>>])])])])} |->
  \* non-linear transformation (same as for encryption and decryption)
  Bind([T1 \in {pre[1]},
        T2 \in {pre[2]},
        T3 \in {pre[3]},
        T4 \in {pre[4]},
        T6 \in {pre[5]},
        T8 \in {pre[6]},
        T9 \in {pre[7]},
        T10 \in {pre[8]},
        T13 \in {pre[9]},
        T14 \in {pre[10]},
        T15 \in {pre[11]},
        T16 \in {pre[12]},
        T17 \in {pre[13]},
        T19 \in {pre[14]},
        T20 \in {pre[15]},
        T22 \in {pre[16]},
        T23 \in {pre[17]},
        T24 \in {pre[18]},
        T25 \in {pre[19]},
        T26 \in {pre[20]},
        T27 \in {pre[21]},
        D \in {pre[22]} |->
  Bind([M1 \in {And(T13, T6)},
        M6 \in {And(T3, T16)},
        M11 \in {And(T1, T15)} |->
  Bind([M13 \in {Xor(And(T4, T27), M11)},
        M15 \in {Xor(And(T2, T10), M11)} |->
  Bind([M20 \in {Xor(Xor(Xor(T14, M1), And(T23, T8)), M13)},
        M21 \in {Xor(Xor(Xor(And(T19, D), M1), T24), M15)},
        M22 \in {Xor(Xor(Xor(T26, M6), And(T22, T9)), M13)},
        M23 \in {Xor(Xor(Xor(And(T20, T17), M6), M15), T25)} |->
  Bind([M25 \in {And(M22, M20)} |->
  Bind([M37 \in {Xor(M21, And(Xor(M20, M21), Xor(M23, M25)))},
        M38 \in {Xor(Xor(M20, M25), Or(M21, And(M20, M23)))},
        M39 \in {Xor(M23, And(Xor(M22, M23), Xor(M21, M25)))},
        M40 \in {Xor(Xor(M22, M25), Or(M23, And(M21, M22)))} |->
  Bind([M41 \in {Xor(M38, M40)},
        M42 \in {Xor(M37, M39)},
        M43 \in {Xor(M37, M38)},
        M44 \in {Xor(M39, M40)},
        M47 \in {And(M40, T8)},
        M48 \in {And(M39, D)},
        M50 \in {And(M38, T9)},
        M51 \in {And(M37, T17)},
        M56 \in {And(M40, T23)},
        M57 \in {And(M39, T19)},
        M59 \in {And(M38, T22)},
        M60 \in {And(M37, T20)} |->
  Bind([M45 \in {Xor(M42, M41)},
        M46 \in {And(M44, T6)},
        M49 \in {And(M43, T16)},
        M52 \in {And(M42, T15)},
        M54 \in {And(M41, T10)},
        M55 \in {And(M44, T13)},
        M58 \in {And(M43, T3)},
        M61 \in {And(M42, T1)},
        M63 \in {And(M41, T2)} |->
  Bind([M53 \in {And(M45, T27)},
        M62 \in {And(M45, T4)} |->
  IF inv # 0
  THEN \* undo linear preprocessing
       Bind([P0 \in {Xor(M52, M61)},
             P1 \in {Xor(M58, M59)},
             P2 \in {Xor(M54, M62)},
             P3 \in {Xor(M47, M50)},
             P4 \in {Xor(M48, M56)},
             P5 \in {Xor(M46, M51)},
             P6 \in {Xor(M49, M60)},
             P8 \in {Xor(M50, M53)},
             P9 \in {Xor(M55, M63)},
             P12 \in {Xor(M46, M48)},
             P13 \in {Xor(M49, M51)},
             P14 \in {Xor(M49, M62)},
             P15 \in {Xor(M54, M59)},
             P16 \in {Xor(M57, M61)} |->
       Bind([P7 \in {Xor(P0, P1)},
             P10 \in {Xor(M57, P4)},
             P11 \in {Xor(P0, P3)},
             P17 \in {Xor(M58, P2)},
             P18 \in {Xor(M63, P5)},
             P19 \in {Xor(P2, P3)},
             P20 \in {Xor(P4, P6)} |->
       Bind([P22 \in {Xor(P2, P7)},
             P23 \in {Xor(P7, P8)},
             P24 \in {Xor(P5, P7)},
             P25 \in {Xor(P6, P10)},
             P26 \in {Xor(P9, P11)},
             P27 \in {Xor(P10, P18)},
             P29 \in {Xor(P15, P20)} |->
       Bind([P28 \in {Xor(P11, P25)} |->
       Bind([out \in {<<Xor(P9, P16), Xor(P14, P23), Xor(P19, P24), Xor(P23, P27), Xor(P12, P22), Xor(P17, P28), Xor(P26, P29), Xor(P13, P22)>>} |->
       [b \in 0..7 |-> out[b + 1]]])])])])])
  ELSE \* linear postprocessing
       Bind([L0 \in {Xor(M61, M62)},
             L1 \in {Xor(M50, M56)},
             L2 \in {Xor(M46, M48)},
             L3 \in {Xor(M47, M55)},
             L4 \in {Xor(M54, M58)},
             L5 \in {Xor(M49, M61)},
             L8 \in {Xor(M51, M59)},
             L9 \in {Xor(M52, M53)},
             L12 \in {Xor(M48, M51)},
             L14 \in {Xor(M52, M61)} |->
       Bind([L6 \in {Xor(M62, L5)},
             L7 \in {Xor(M46, L3)},
             L10 \in {Xor(M53, L4)},
             L11 \in {Xor(M60, L2)},
             L13 \in {Xor(M50, L0)},
             L15 \in {Xor(M55, L1)},
             L16 \in {Xor(M56, L0)},
             L17 \in {Xor(M57, L1)},
             L18 \in {Xor(M58, L8)},
             L19 \in {Xor(M63, L4)},
             L20 \in {Xor(L0, L1)},
             L22 \in {Xor(L3, L12)} |->
       Bind([L21 \in {Xor(L1, L7)},
             L23 \in {Xor(L18, L2)},
             L24 \in {Xor(L15, L9)},
             L25 \in {Xor(L6, L10)},
             L26 \in {Xor(L7, L9)},
             L27 \in {Xor(L8, L10)},
             L28 \in {Xor(L11, L14)},
             L29 \in {Xor(L11, L17)} |->
       Bind([out \in {<<Not16(Xor(L6, L23)), Not16(Xor(L13, L27)), Xor(L25, L29), Xor(L20, L22), Xor(L6, L21), Not16(Xor(L19, L28)), Not16(Xor(L16, L26)), Xor(L6, L24)>>} |->
       [b \in 0..7 |-> out[b + 1]]])])])])
  ])])])])])])])])])])])

\* Apply the SubBytes transform to the bytes of an unsliced word.
\*   s.slice[b] = (x & 1) | ((x >> 7) & 2) | ((x >> 14) & 4) | ((x >> 21) & 8); x >>= 1;
\*   r |= ((t & 1) | (t & 2) << 7 | (t & 4) << 14 | (t & 8) << 21) << b;
SubWordSlices(x) ==
  LET sl(b) == LET xb == Shr(x, b)
               IN  U16(Or(Or(Or(And(xb, {0}), And(Shr(xb, 7), {1})),
                             And(Shr(xb, 14), {2})),
                          And(Shr(xb, 21), {3})))
  IN  Bind([s \in {<<sl(0), sl(1), sl(2), sl(3), sl(4), sl(5), sl(6), sl(7)>>} |->
      [b \in 0..7 |-> s[b + 1]]])

\* Convert back to word form.
SubWordJoin(t) ==
  LET part(b) == U32(Shl(Or(Or(Or(And(t[b], {0}), Shl(And(t[b], {1}), 7)),
                               Shl(And(t[b], {2}), 14)),
                            Shl(And(t[b], {3}), 21)), b))
  IN  UNION {part(b) : b \in 0..7}

(***************************************************************************)
(* Linear layers.                                                          *)
(***************************************************************************)
\* A faulty ShiftRowsWord: row r goes right by r columns.
ShiftRowsWordRight(v) ==
  U16(Or(Or(Or(Or(Or(Or(And(v, {0, 1, 2, 3}),
                        Shl(And(v, {4, 5, 6}), 1)),
                     Shr(And(v, {7}), 3)),
                  Shl(And(v, {8, 9}), 2)),
               Shr(And(v, {10, 11}), 2)),
            Shl(And(v, {12}), 3)),
         Shr(And(v, {13, 14, 15}), 1)))

\* (v & 0xF) | (v & 0x10) << 3 | (v & 0xE0) >> 1 | (v & 0x300) << 2
\*   | (v & 0xC00) >> 2 | (v & 0x7000) << 1 | (v & 0x8000) >> 3
ShiftRowsWord(v) ==
  U16(Or(Or(Or(Or(Or(Or(And(v, {0, 1, 2, 3}),
                        Shl(And(v, {4}), 3)),
                     Shr(And(v, {5, 6, 7}), 1)),
                  Shl(And(v, {8, 9}), 2)),
               Shr(And(v, {10, 11}), 2)),
            Shl(And(v, {12, 13, 14}), 1)),
         Shr(And(v, {15}), 3)))

ShiftRows(s) == [i \in 0..7 |-> ShiftRowsWord(s[i])]

\* A faulty InvShiftRowsWord: the rows move as in ShiftRows.
ShiftRowsWordAgain(v) == ShiftRowsWord(v)

\* (v & 0xF) | (v & 0x70) << 1 | (v & 0x80) >> 3 | (v & 0x300) << 2
\*   | (v & 0xC00) >> 2 | (v & 0x1000) << 3 | (v & 0xE000) >> 1
InvShiftRowsWord(v) ==
  U16(Or(Or(Or(Or(Or(Or(And(v, {0, 1, 2, 3}),
                        Shl(And(v, {4, 5, 6}), 1)),
                     Shr(And(v, {7}), 3)),
                  Shl(And(v, {8, 9}), 2)),
               Shr(And(v, {10, 11}), 2)),
            Shl(And(v, {12}), 3)),
         Shr(And(v, {13, 14, 15}), 1)))

InvShiftRows(s) == [i \in 0..7 |-> InvShiftRowsWord(s[i])]

\* A faulty ROT: the shifts exchanged.
RotUp(x, b) == Or(Shl(x, b * 4), Shr(x, (4 - b) * 4))

\* #define ROT(x,b) (((x) >> ((b) * 4)) | ((x) << ((4-(b)) * 4))): an int, with
\* bits above 15 until it is stored in a uint16_t.
ROT(x, b) == Or(Shr(x, b * 4), Shl(x, (4 - b) * 4))

\* b(r,c) = 02 * a(r,c) + 02 * a(r+1,c) + a(r+1,c) + a(r+2,c) + a(r+3,c)
MixColumns(s) ==
  Bind([a0 \in {s[0]},
        a1 \in {s[1]},
        a2 \in {s[2]},
        a3 \in {s[3]},
        a4 \in {s[4]},
        a5 \in {s[5]},
        a6 \in {s[6]},
        a7 \in {s[7]} |->
  Bind([a0_01 \in {U16(Xor(a0, ROT(a0, 1)))},
        a1_01 \in {U16(Xor(a1, ROT(a1, 1)))},
        a2_01 \in {U16(Xor(a2, ROT(a2, 1)))},
        a3_01 \in {U16(Xor(a3, ROT(a3, 1)))},
        a4_01 \in {U16(Xor(a4, ROT(a4, 1)))},
        a5_01 \in {U16(Xor(a5, ROT(a5, 1)))},
        a6_01 \in {U16(Xor(a6, ROT(a6, 1)))},
        a7_01 \in {U16(Xor(a7, ROT(a7, 1)))} |->
  Bind([a0_123 \in {U16(Xor(ROT(a0_01, 1), ROT(a0, 3)))},
        a1_123 \in {U16(Xor(ROT(a1_01, 1), ROT(a1, 3)))},
        a2_123 \in {U16(Xor(ROT(a2_01, 1), ROT(a2, 3)))},
        a3_123 \in {U16(Xor(ROT(a3_01, 1), ROT(a3, 3)))},
        a4_123 \in {U16(Xor(ROT(a4_01, 1), ROT(a4, 3)))},
        a5_123 \in {U16(Xor(ROT(a5_01, 1), ROT(a5, 3)))},
        a6_123 \in {U16(Xor(ROT(a6_01, 1), ROT(a6, 3)))},
        a7_123 \in {U16(Xor(ROT(a7_01, 1), ROT(a7, 3)))} |->
  Bind([out \in {<<Xor(a7_01, a0_123),
                   Xor(Xor(a7_01, a0_01), a1_123),
                   Xor(a1_01, a2_123),
                   Xor(Xor(a7_01, a2_01), a3_123),
                   Xor(Xor(a7_01, a3_01), a4_123),
                   Xor(a4_01, a5_123),
                   Xor(a5_01, a6_123),
                   Xor(a6_01, a7_123)>>} |->
  [b \in 0..7 |-> out[b + 1]]])])])])

\* A faulty InvMixColumns: the forward transform.
InvMixColumnsForward(s) == MixColumns(s)

\* b(r,c) = 0e * a(r,c) + 0b * a(r+1,c) + 0d * a(r+2,c) + 09 * a(r+3,c)
InvMixColumns(s) ==
  Bind([a0 \in {s[0]},
        a1 \in {s[1]},
        a2 \in {s[2]},
        a3 \in {s[3]},
        a4 \in {s[4]},
        a5 \in {s[5]},
        a6 \in {s[6]},
        a7 \in {s[7]} |->
  Bind([a0_01 \in {U16(Xor(a0, ROT(a0, 1)))},
        a1_01 \in {U16(Xor(a1, ROT(a1, 1)))},
        a2_01 \in {U16(Xor(a2, ROT(a2, 1)))},
        a3_01 \in {U16(Xor(a3, ROT(a3, 1)))},
        a4_01 \in {U16(Xor(a4, ROT(a4, 1)))},
        a5_01 \in {U16(Xor(a5, ROT(a5, 1)))},
        a6_01 \in {U16(Xor(a6, ROT(a6, 1)))},
        a7_01 \in {U16(Xor(a7, ROT(a7, 1)))} |->
  Bind([a0_12 \in {U16(ROT(a0_01, 1))},
        a1_12 \in {U16(ROT(a1_01, 1))},
        a2_12 \in {U16(ROT(a2_01, 1))},
        a3_12 \in {U16(ROT(a3_01, 1))},
        a4_12 \in {U16(ROT(a4_01, 1))},
        a5_12 \in {U16(ROT(a5_01, 1))},
        a6_12 \in {U16(ROT(a6_01, 1))},
        a7_12 \in {U16(ROT(a7_01, 1))} |->
  Bind([a0_123 \in {U16(Xor(a0_12, ROT(a0, 3)))},
        a0_02 \in {Xor(a0_01, a0_12)},
        a1_123 \in {U16(Xor(a1_12, ROT(a1, 3)))},
        a1_02 \in {Xor(a1_01, a1_12)},
        a2_123 \in {U16(Xor(a2_12, ROT(a2, 3)))},
        a2_02 \in {Xor(a2_01, a2_12)},
        a3_123 \in {U16(Xor(a3_12, ROT(a3, 3)))},
        a3_02 \in {Xor(a3_01, a3_12)},
        a4_123 \in {U16(Xor(a4_12, ROT(a4, 3)))},
        a4_02 \in {Xor(a4_01, a4_12)},
        a5_123 \in {U16(Xor(a5_12, ROT(a5, 3)))},
        a5_02 \in {Xor(a5_01, a5_12)},
        a6_123 \in {U16(Xor(a6_12, ROT(a6, 3)))},
        a6_02 \in {Xor(a6_01, a6_12)},
        a7_123 \in {U16(Xor(a7_12, ROT(a7, 3)))},
        a7_02 \in {Xor(a7_01, a7_12)} |->
  Bind([a0_0123 \in {Xor(a0, a0_123)},
        a1_0123 \in {Xor(a1, a1_123)},
        a2_0123 \in {Xor(a2, a2_123)},
        a3_0123 \in {Xor(a3, a3_123)},
        a4_0123 \in {Xor(a4, a4_123)},
        a5_0123 \in {Xor(a5, a5_123)},
        a6_0123 \in {Xor(a6, a6_123)},
        a7_0123 \in {Xor(a7, a7_123)} |->
  Bind([out \in {<<Xor(Xor(Xor(a0_123, a7_01), a6_02), a5_0123),
                   Xor(Xor(Xor(Xor(Xor(a1_123, a0_01), a7_12), a6_02), a5_0123), a6_0123),
                   Xor(Xor(Xor(Xor(Xor(a2_123, a1_01), a0_02), a7_02), a6_0123), a7_0123),
                   Xor(Xor(Xor(Xor(Xor(Xor(Xor(a3_123, a2_01), a7_01), a1_02), a6_02), a0_0123), a5_0123), a7_0123),
                   Xor(Xor(Xor(Xor(Xor(Xor(Xor(a4_123, a3_01), a7_12), a2_02), a6_02), a1_0123), a5_0123), a6_0123),
                   Xor(Xor(Xor(Xor(Xor(Xor(a5_123, a4_01), a3_02), a7_02), a2_0123), a6_0123), a7_0123),
                   Xor(Xor(Xor(Xor(a6_123, a5_01), a4_02), a3_0123), a7_0123),
                   Xor(Xor(Xor(a7_123, a6_01), a5_02), a4_0123)>>} |->
  [b \in 0..7 |-> out[b + 1]]])])])])])])

\* A faulty AddRoundKey: the round key is wiped once it has been used.
AddRoundKeyWipe(s, round) ==
  [s |-> [b \in 0..7 |-> Xor(s[b], round[b])], round |-> [b \in 0..7 |-> {}]]

\* A faulty AddRoundKey: the sum is formed in the round key's storage.
AddRoundKeyScratch(s, round) ==
  [s |-> [b \in 0..7 |-> Xor(s[b], round[b])], round |-> [b \in 0..7 |-> Xor(s[b], round[b])]]

\* s->slice[b] ^= round->slice[b] for b = 0..7.  Both pointed-to objects are
\* returned: s is written, round is declared const and only read.
AddRoundKey(s, round) ==
  [s |-> [b \in 0..7 |-> Xor(s[b], round[b])], round |-> round]

(***************************************************************************)
(* The two files and the three key sizes.                                  *)
(***************************************************************************)
Builds == {"ctaes.c", "part_000"}

\* A faulty SubBytesOf: the four complemented output slices are left plain
\* (the S-box without its constant 0x63).
SubBytesOfPlain(b, s) ==
  [i \in 0..7 |-> IF i \in {0, 1, 5, 6}
                  THEN Not16((IF b = "part_000" THEN SubBytesInv(s, 0) ELSE SubBytes(s))[i])
                  ELSE (IF b = "part_000" THEN SubBytesInv(s, 0) ELSE SubBytes(s))[i]]

\* SubBytes(&s) of ctaes.c, SubBytes(&s, 0) of part_000.
SubBytesOf(b, s) == IF b = "part_000" THEN SubBytesInv(s, 0) ELSE SubBytes(s)

\* InvSubBytes(&s) of ctaes.c, SubBytes(&s, 1) of part_000.
InvSubBytesOf(b, s) == IF b = "part_000" THEN SubBytesInv(s, 1) ELSE InvSubBytes(s)

SubWord(b, x) ==
  Bind([s \in {SubWordSlices(x)} |->
  Bind([t \in {SubBytesOf(b, s)} |->
  SubWordJoin(t)])])

\* The (nkeywords, nrounds) that AES128_init, AES192_init, AES256_init and the
\* matching encrypt and decrypt wrappers pass on.
Variants == {"AES128", "AES192", "AES256"}

NKeywords == [AES128 |-> 4, AES192 |-> 6, AES256 |-> 8]

NRounds == [AES128 |-> 10, AES192 |-> 12, AES256 |-> 14]

\* A faulty Low2: i & 7.
Low2Wide(i) == i % 8

\* i & 3 and i & 7 of a non-negative int.
Low2(i) == i % 4

Low3(i) == i % 8

\* -x of an int, in two's complement.
Neg(x) ==
  IF x = {} THEN {}
  ELSE LET z == CHOOSE p \in x : \A q \in x : p <= q
       IN  {z} \cup {p \in (z + 1)..31 : p \notin x}

\* The initial value of rcon, 0x01.
RconInit == {0}

\* A faulty NextRcon: the reduction by 0x1B is missing.
NextRconShiftOnly(rcon) == U8(Shl(rcon, 1))

\* rcon = ((-(rcon >> 7)) & 0x1B) ^ (rcon << 1), stored in a uint8_t.
NextRcon(rcon) == U8(Xor(And(Neg(Shr(rcon, 7)), Bits(27)), Shl(rcon, 1)))

\* A faulty RotLeft8: temp >> 8 | temp << 24.
RotRight8(temp) == U32(Or(Shr(temp, 8), Shl(temp, 24)))

\* temp << 8 | temp >> 24 of a uint32_t.
RotLeft8(temp) == U32(Or(Shl(temp, 8), Shr(temp, 24)))

\* The slots of the ring rk[8] that the second loop of AES_setup reads.
PrevSlot(i) == Low3(i + 7)

\* A faulty BackSlot: the slot of w[i-4] whatever nkeywords is.
BackSlotFour(i, nkeywords) == Low3(i + 4)

BackSlot(i, nkeywords) == Low3(i + 8 - nkeywords)

\* The transform of temp in the second loop of AES_setup.
TransformTemp(b, temp, pos, rcon, nkeywords) ==
  IF pos = 0
  THEN Xor(SubWord(b, RotLeft8(temp)), Shl(rcon, 24))
  ELSE IF nkeywords > 6 /\ pos = 4
       THEN SubWord(b, temp)
       ELSE temp

\* if (++pos == nkeywords) pos = 0;
NextPos(pos, nkeywords) == IF pos + 1 = nkeywords THEN 0 ELSE pos + 1

\* A faulty SetupWords: one round key too few.
SetupWordsShort(nrounds) == 4 * nrounds

\* The bound of the second loop of AES_setup.
SetupWords(nrounds) == 4 * (nrounds + 1)

\* A faulty RoundTest: round <= nrounds.
RoundTestInclusive(round, nrounds) == round <= nrounds

\* The loop test of AES_encrypt and AES_decrypt.
RoundTest(round, nrounds) == round < nrounds

(***************************************************************************)
(* What each statement shows to an observer of control flow and addresses: *)
(* <<"br", where, outcome>> for a branch and <<"ix", array, index>> for an *)
(* array access; a callee whose loops have constant bounds and no other    *)
(* branch contributes <<"call", name, 0>>.                                 *)
(***************************************************************************)
Br(where, c) == <<"br", where, IF c THEN 1 ELSE 0>>

Ix(array, i) == <<"ix", array, i>>

Callee(name) == <<"call", name, 0>>

\* A faulty SubBytesTrace: an S-box that looks the first byte of the
\* state up in a table.
SubBytesLookupTrace(b, s, inv) == <<Callee("SubBytes"), Ix("sbox", SaveByte(s, 0, 0))>>

\* SubBytes: a fixed gate network; part_000 branches twice on the flag inv.
SubBytesTrace(b, s, inv) ==
  IF b = "part_000"
  THEN <<Callee("SubBytes"), Br("inv", inv # 0), Br("inv", inv # 0)>>
  ELSE <<Callee(IF inv # 0 THEN "InvSubBytes" ELSE "SubBytes")>>

SubWordTrace(b, x) == <<Callee("SubWord")>> \o SubBytesTrace(b, SubWordSlices(x), 0)

(***************************************************************************)
(* Inputs: keys and blocks of FIPS-197 and patterns.                       *)
(***************************************************************************)
NKeys == 3

NBlocks == 3

KeyB128 ==
  <<43, 126, 21, 22, 40, 174, 210, 166,
    171, 247, 21, 136, 9, 207, 79, 60>>

KeyA192 ==
  <<142, 115, 176, 247, 218, 14, 100, 82,
    200, 16, 243, 43, 128, 144, 121, 229,
    98, 248, 234, 210, 82, 44, 107, 123>>

KeyA256 ==
  <<96, 61, 235, 16, 21, 202, 113, 190,
    43, 115, 174, 240, 133, 125, 119, 129,
    31, 53, 44, 7, 59, 97, 8, 215,
    45, 152, 16, 163, 9, 20, 223, 244>>

BlockC ==
  <<0, 17, 34, 51, 68, 85, 102, 119,
    136, 153, 170, 187, 204, 221, 238, 255>>

BlockB ==
  <<50, 67, 246, 168, 136, 90, 48, 141,
    49, 49, 152, 162, 224, 55, 7, 52>>

\* Key k of a variant: 0 is 00 01 02 ... (Appendix C), 1 is the key of
\* Appendix B (AES-128) or Appendix A (AES-192, AES-256), 2 is all zero.
KeyBytes(v, k) ==
  [j \in 0..(4 * NKeywords[v] - 1) |->
     IF k = 0 THEN j
     ELSE IF k = 1 THEN (IF v = "AES128" THEN KeyB128[j + 1]
                         ELSE IF v = "AES192" THEN KeyA192[j + 1]
                         ELSE KeyA256[j + 1])
     ELSE IF k = 2 THEN 0
     ELSE (k * 29 + j * 7 + 3) % 256]

\* Block n: 0 is 00 11 22 ... (Appendix C), 1 is the input of Appendix B,
\* 2 is all zero.
BlockBytes(n) ==
  [j \in 0..15 |->
     IF n = 0 THEN BlockC[j + 1]
     ELSE IF n = 1 THEN BlockB[j + 1]
     ELSE IF n = 2 THEN 0
     ELSE (n * 53 + j * 11 + 5) % 256]

\* What memory nobody has written yet may hold.
Junk == {0, 1}

JunkSlice(g) == IF g % 2 = 0 THEN {} ELSE {p \in 0..15 : p % 3 # 1}

JunkState(g) == [b \in 0..7 |-> JunkSlice(g + b)]

JunkWord(g) == IF g % 2 = 0 THEN {} ELSE {p \in 0..31 : p % 5 # 2}

JunkBlock(g) == [j \in 0..15 |-> IF g % 2 = 0 THEN 0 ELSE 165]

Threads == {1, 2}

CtxIds == {1, 2}

BufIds == {1, 2}

(***************************************************************************)
(* State.                                                                  *)
(***************************************************************************)
VARIABLES
  variant,   \* which of AES128, AES192, AES256 the contexts and calls are
  build,     \* which of the two files is compiled
  ctx,       \* ctx[c].rk: the round-key array of context c, slots 0..nrounds
  buf,       \* buf[t][n]: the 16-byte buffers of the caller on thread t
  frame,     \* frame[t]: the call running on thread t, its arguments and locals
  todo,      \* todo[t]: the calls the caller on thread t still makes
  log,       \* history: the calls that have returned, per thread
  ckey,      \* history: the key whose schedule a context holds (NoKey, Tampered)
  sched      \* history: ctx[c].rk as the last call that writes context c left it

vars == <<variant, build, ctx, buf, frame, todo, log, ckey, sched>>

\* No key: a context that no init has completed on.
NoKey == 0 - 1

\* No key either: a context that a call of AddRoundKey by the caller has
\* written since its last init.
Tampered == 0 - 2

IdleFrame ==
  [op |-> "idle", pc |-> "idle", c |-> 0, in |-> 0, out |-> 0,
   nkeywords |-> 0, nrounds |-> 0, rounds |-> 0,
   keyb |-> <<>>, key |-> 0,
   i |-> 0, rcon |-> {}, rk |-> <<>>, round |-> 0, pos |-> 0,
   s |-> <<>>,
   kidx |-> NoKey, arg |-> <<>>, tr |-> <<>>, w |-> <<>>, gen |-> 0, cnt |-> <<0, 0>>, acc |-> <<>>]

\* A call of the caller's program.
Call(op, c, in, out) == [op |-> op, c |-> c, in |-> in, out |-> out]

\* The calls that have returned, and how many of them wrote context c (an
\* init, or a call of AddRoundKey by the caller).
CallIds == {id \in Threads \X (1..8) : id[2] <= Len(log[id[1]])}

Entry(id) == log[id[1]][id[2]]

Writers == {"setup", "addroundkey"}

WriteCount(c) == Cardinality({id \in CallIds : Entry(id).op \in Writers /\ Entry(id).c = c})

\* Nobody is inside a call that uses context c.
Unused(c, t) == \A u \in Threads \ {t} : frame[u].op = "idle" \/ frame[u].c # c

\* Nobody is inside a call that writes context c, and an init has returned.
Ready(c) ==
  /\ ckey[c] # NoKey
  /\ \A u \in Threads : ~(frame[u].op \in Writers /\ frame[u].c = c)

(***************************************************************************)
(* AESxxx_init: AES_setup(ctx->rk, key, nkeywords, nrounds).               *)
(***************************************************************************)
\* The caller enters AESxxx_init(&ctx[c], key k).  The locals rcon, round and
\* pos are initialised; rk[8] is not.
CallInit(t) ==
  /\ frame[t].op = "idle"
  /\ todo[t] # <<>>
  /\ Head(todo[t]).op = "init"
  /\ Unused(Head(todo[t]).c, t)
  /\ \E k \in 0..(NKeys - 1), g \in Junk :
       frame' = [frame EXCEPT ![t] =
                   [IdleFrame EXCEPT
                      !.op = "setup", !.pc = "first", !.c = Head(todo[t]).c,
                      !.nkeywords = NKeywords[variant], !.nrounds = NRounds[variant],
                      !.rounds = 0, !.keyb = KeyBytes(variant, k), !.key = 0,
                      !.i = 0, !.rcon = RconInit, !.round = 0, !.pos = 0,
                      !.rk = [n \in 0..7 |-> JunkWord(g + n)],
                      !.kidx = k, !.gen = WriteCount(Head(todo[t]).c)]]
  /\ todo' = [todo EXCEPT ![t] = Tail(@)]
  /\ ckey' = [ckey EXCEPT ![Head(todo[t]).c] = NoKey]
  /\ UNCHANGED <<variant, build, ctx, buf, log, sched>>

\* One iteration of for (i = 0; i < nkeywords; i++).
SetupFirstBody(t) ==
  LET f == frame[t]
      i == f.i
      word == BytesToWord(f.keyb[f.key], f.keyb[f.key + 1], f.keyb[f.key + 2], f.keyb[f.key + 3])
      rk == [f.rk EXCEPT ![i] = word]
      full == Low2(i) = 3
  IN  /\ f.op = "setup" /\ f.pc = "first"
      /\ i < f.nkeywords
      /\ ctx' = IF full
                THEN [ctx EXCEPT ![f.c][f.rounds] =
                        LoadWords(@, rk[i - 3], rk[i - 2], rk[i - 1], rk[i])]
                ELSE ctx
      /\ frame' = [frame EXCEPT ![t] =
                     [f EXCEPT !.rk = rk,
                               !.rounds = IF full THEN @ + 1 ELSE @,
                               !.key = @ + 4,
                               !.i = i + 1,
                               !.tr = @ \o <<Br("i < nkeywords", TRUE), Ix("rk", i),
                                             Br("(i & 3) == 3", full)>>
                                        \o (IF full
                                            THEN <<Ix("rk", i - 3), Ix("rk", i - 2), Ix("rk", i - 1),
                                                   Ix("rk", i), Ix("rounds", f.rounds),
                                                   Callee("LoadWords")>>
                                            ELSE <<>>),
                               !.w = Append(@, word),
                               !.cnt = <<@[1] + 1, @[2]>>]]
      /\ UNCHANGED <<variant, build, buf, todo, log, ckey, sched>>

\* The first loop ends; for (i = nkeywords; ...) starts.
SetupFirstExit(t) ==
  LET f == frame[t]
  IN  /\ f.op = "setup" /\ f.pc = "first"
      /\ ~(f.i < f.nkeywords)
      /\ frame' = [frame EXCEPT ![t] =
                     [f EXCEPT !.pc = "second", !.i = f.nkeywords,
                               !.tr = Append(@, Br("i < nkeywords", FALSE))]]
      /\ UNCHANGED <<variant, build, ctx, buf, todo, log, ckey, sched>>

(***************************************************************************)
(* AES_encrypt and AES_decrypt as functions of their arguments: what a     *)
(* call returns in out16 when nothing else runs between its entry and its  *)
(* return.  s is what the local AES_state held at entry.                   *)
(***************************************************************************)
\* One pass of the loop body of AES_encrypt with the round key at rounds[n].
\* Every slice of an AES_state is a uint16_t.
IsState(s) == \A b \in 0..7 : s[b] \subseteq 0..15

EncryptRound(b, rounds, n, s) ==
  LET s1 == SubBytesOf(b, s)
      s2 == ShiftRows(s1)
      s3 == MixColumns(s2)
  IN  After(<<IsState(s1), IsState(s3)>>, AddRoundKey(s3, rounds[n]).s)

RECURSIVE EncryptLoop(_, _, _, _, _)
\* for (round = 1; round < nrounds; round++), rounds pointing at slot round.
\* (IsState(s) always holds; evaluating it computes s before the next round.)
EncryptLoop(b, rounds, nrounds, s, round) ==
  IF RoundTest(round, nrounds) /\ IsState(s)
  THEN EncryptLoop(b, rounds, nrounds, EncryptRound(b, rounds, round, s), round + 1)
  ELSE s

AES_encrypt(b, rounds, nrounds, plain16, s) ==
  LET s1 == AddRoundKey(LoadBytes(s, plain16), rounds[0]).s
      s2 == EncryptLoop(b, rounds, nrounds, s1, 1)
      s3 == SubBytesOf(b, s2)
      s4 == AddRoundKey(ShiftRows(s3), rounds[nrounds]).s
  IN  After(<<IsState(s1), IsState(s2), IsState(s3)>>, SaveBytes(s4))

\* One pass of the loop body of AES_decrypt with the round key at rounds[n].
DecryptRound(b, rounds, n, s) ==
  LET s1 == InvSubBytesOf(b, InvShiftRows(s))
      s2 == AddRoundKey(s1, rounds[n]).s
  IN  After(<<IsState(s1)>>, InvMixColumns(s2))

RECURSIVE DecryptLoop(_, _, _, _, _)
\* for (round = 1; round < nrounds; round++), rounds pointing at slot
\* nrounds - round.
DecryptLoop(b, rounds, nrounds, s, round) ==
  IF RoundTest(round, nrounds) /\ IsState(s)
  THEN DecryptLoop(b, rounds, nrounds, DecryptRound(b, rounds, nrounds - round, s), round + 1)
  ELSE s

AES_decrypt(b, rounds, nrounds, cipher16, s) ==
  LET s1 == AddRoundKey(LoadBytes(s, cipher16), rounds[nrounds]).s
      s2 == DecryptLoop(b, rounds, nrounds, s1, 1)
      s3 == InvSubBytesOf(b, InvShiftRows(s2))
      s4 == AddRoundKey(s3, rounds[0]).s
  IN  After(<<IsState(s1), IsState(s2), IsState(s3)>>, SaveBytes(s4))

\* History: word i of the key expansion of FIPS-197 5.2 on the full array w
\* (w[j + 1] is the word FIPS-197 calls w[j]), the round constant being
\* x^(i/Nk - 1) in GF(2^8).
XTime(p) == IF 7 \in p THEN Xor(U8(Shl(p, 1)), {0, 1, 3, 4}) ELSE Shl(p, 1)

RECURSIVE RconByte(_)
RconByte(j) == IF j <= 1 THEN {0} ELSE XTime(RconByte(j - 1))

RotWord(x) == U32(Or(Shl(x, 8), Shr(x, 24)))

FipsWord(b, w, i, nk) ==
  LET temp == w[i]
      t2 == IF i % nk = 0
            THEN Xor(SubWord(b, RotWord(temp)), Shl(RconByte(i \div nk), 24))
            ELSE IF nk > 6 /\ i % nk = 4
                 THEN SubWord(b, temp)
                 ELSE temp
  IN  Xor(w[i - nk + 1], t2)

\* One iteration of for (i = nkeywords; i < 4 * (nrounds + 1); i++).
SetupSecondBody(t) ==
  LET f == frame[t]
      i == f.i
      nk == f.nkeywords
      temp0 == f.rk[PrevSlot(i)]
      temp == TransformTemp(build, temp0, f.pos, f.rcon, nk)
      rk == [f.rk EXCEPT ![Low3(i)] = Xor(f.rk[BackSlot(i, nk)], temp)]
      full == Low2(i) = 3
      sub == f.pos = 0 \/ (nk > 6 /\ f.pos = 4)
  IN  /\ f.op = "setup" /\ f.pc = "second"
      /\ i < SetupWords(f.nrounds)
      /\ ctx' = IF full
                THEN [ctx EXCEPT ![f.c][f.rounds] =
                        LoadWords(@, rk[Low3(i + 5)], rk[Low3(i + 6)], rk[Low3(i + 7)], rk[Low3(i)])]
                ELSE ctx
      /\ frame' = [frame EXCEPT ![t] =
                     [f EXCEPT !.rk = rk,
                               !.rcon = IF f.pos = 0 THEN NextRcon(@) ELSE @,
                               !.pos = NextPos(@, nk),
                               !.rounds = IF full THEN @ + 1 ELSE @,
                               !.i = i + 1,
                               !.tr = @ \o <<Br("i < 4 * (nrounds + 1)", TRUE), Ix("rk", PrevSlot(i)),
                                             Br("pos == 0", f.pos = 0)>>
                                        \o (IF f.pos = 0 THEN <<>>
                                            ELSE IF nk > 6
                                                 THEN <<Br("nkeywords > 6", TRUE), Br("pos == 4", f.pos = 4)>>
                                                 ELSE <<Br("nkeywords > 6", FALSE)>>)
                                        \o (IF sub
                                            THEN SubWordTrace(build, IF f.pos = 0 THEN RotLeft8(temp0) ELSE temp0)
                                            ELSE <<>>)
                                        \o <<Br("++pos == nkeywords", f.pos + 1 = nk),
                                             Ix("rk", BackSlot(i, nk)), Ix("rk", Low3(i)),
                                             Br("(i & 3) == 3", full)>>
                                        \o (IF full
                                            THEN <<Ix("rk", Low3(i + 5)), Ix("rk", Low3(i + 6)),
                                                   Ix("rk", Low3(i + 7)), Ix("rk", Low3(i)),
                                                   Ix("rounds", f.rounds), Callee("LoadWords")>>
                                            ELSE <<>>),
                               !.w = Append(@, FipsWord(build, @, i, nk)),
                               !.cnt = <<@[1], @[2] + 1>>]]
      /\ UNCHANGED <<variant, build, buf, todo, log, ckey, sched>>

\* The second loop ends and AES_setup returns.
SetupSecondExit(t) ==
  LET f == frame[t]
  IN  /\ f.op = "setup" /\ f.pc = "second"
      /\ ~(f.i < SetupWords(f.nrounds))
      /\ frame' = [frame EXCEPT ![t] =
                     [f EXCEPT !.pc = "done",
                               !.tr = Append(@, Br("i < 4 * (nrounds + 1)", FALSE))]]
      /\ UNCHANGED <<variant, build, ctx, buf, todo, log, ckey, sched>>

(***************************************************************************)
(* AESxxx_encrypt and AESxxx_decrypt: the statements of AES_encrypt and    *)
(* AES_decrypt, one step each.                                             *)
(***************************************************************************)
\* A faulty ReadBlock: the output buffer is cleared before the input is read.
ReadBlockStreaming(mem, in, out, s) ==
  LET m == [mem EXCEPT ![out] = [k \in 0..15 |-> 0]]
  IN  [mem |-> m,
       s   |-> LoadBytes(s, m[in]),
       acc |-> [k \in 1..16 |-> <<"W", out, k - 1>>] \o [k \in 1..16 |-> <<"R", in, k - 1>>]]

\* LoadBytes(&s, in16) as a statement of a round driver: it reads in16[0..15]
\* of the caller's memory mem and writes the local s only.
ReadBlock(mem, in, out, s) ==
  [mem |-> mem,
   s   |-> LoadBytes(s, mem[in]),
   acc |-> [k \in 1..16 |-> <<"R", in, k - 1>>]]

\* SaveBytes(out16, &s) as a statement of a round driver: it writes
\* out16[0..15], byte c * 4 + r in the order of the c and r loops.
WriteBlock(mem, in, out, s) ==
  [mem |-> [mem EXCEPT ![out] = SaveBytes(s)],
   s   |-> s,
   acc |-> [k \in 1..16 |-> <<"W", out, k - 1>>]]

\* A statement that works on the local s alone.
LocalStep(t, op, pc, pc2, s2, ev, round2, cnt2) ==
  /\ frame[t].op = op /\ frame[t].pc = pc
  /\ frame' = [frame EXCEPT ![t] =
                 [@ EXCEPT !.s = s2, !.pc = pc2, !.round = round2, !.cnt = cnt2,
                           !.tr = @ \o ev]]
  /\ UNCHANGED <<variant, build, ctx, buf, todo, log, ckey, sched>>

\* AddRoundKey(&s, rounds), the pointer rounds moving by d afterwards.
AddRoundKeyStep(t, op, pc, pc2, d, round2, cnt2) ==
  LET f == frame[t]
      r == AddRoundKey(f.s, ctx[f.c][f.rounds])
  IN  /\ f.op = op /\ f.pc = pc
      /\ ctx' = [ctx EXCEPT ![f.c][f.rounds] = r.round]
      /\ frame' = [frame EXCEPT ![t] =
                     [f EXCEPT !.s = r.s, !.rounds = @ + d, !.pc = pc2,
                               !.round = round2, !.cnt = cnt2,
                               !.tr = @ \o <<Ix("rounds", f.rounds), Callee("AddRoundKey")>>]]
      /\ UNCHANGED <<variant, build, buf, todo, log, ckey, sched>>

\* The caller enters AESxxx_encrypt(&ctx[c], out, in); s and round are not
\* initialised.
CallEncrypt(t) ==
  /\ frame[t].op = "idle"
  /\ todo[t] # <<>>
  /\ Head(todo[t]).op = "encrypt"
  /\ Ready(Head(todo[t]).c)
  /\ \E g \in Junk :
       frame' = [frame EXCEPT ![t] =
                   [IdleFrame EXCEPT
                      !.op = "encrypt", !.pc = "load", !.c = Head(todo[t]).c,
                      !.in = Head(todo[t]).in, !.out = Head(todo[t]).out,
                      !.nrounds = NRounds[variant], !.rounds = 0,
                      !.s = JunkState(g), !.round = 0,
                      !.kidx = ckey[Head(todo[t]).c],
                      !.gen = WriteCount(Head(todo[t]).c),
                      !.arg = buf[t][Head(todo[t]).in]]]
  /\ todo' = [todo EXCEPT ![t] = Tail(@)]
  /\ UNCHANGED <<variant, build, ctx, buf, log, ckey, sched>>

\* LoadBytes(&s, plain16);
EncLoadBytes(t) ==
  LET f == frame[t]
      r == ReadBlock(buf[t], f.in, f.out, f.s)
  IN  /\ f.op = "encrypt" /\ f.pc = "load"
      /\ buf' = [buf EXCEPT ![t] = r.mem]
      /\ frame' = [frame EXCEPT ![t] =
                     [f EXCEPT !.s = r.s, !.pc = "ark0", !.acc = @ \o r.acc,
                               !.tr = Append(@, Callee("LoadBytes"))]]
      /\ UNCHANGED <<variant, build, ctx, todo, log, ckey, sched>>

\* AddRoundKey(&s, rounds++); then round = 1.
EncAddRoundKey0(t) ==
  AddRoundKeyStep(t, "encrypt", "ark0", "loop", 1, 1, frame[t].cnt)

\* round < nrounds holds: SubBytes(&s);
EncRoundSubBytes(t) ==
  /\ RoundTest(frame[t].round, frame[t].nrounds)
  /\ LocalStep(t, "encrypt", "loop", "shift", SubBytesOf(build, frame[t].s),
               <<Br("round < nrounds", TRUE)>> \o SubBytesTrace(build, frame[t].s, 0),
               frame[t].round, frame[t].cnt)

\* ShiftRows(&s);
EncRoundShiftRows(t) ==
  LocalStep(t, "encrypt", "shift", "mix", ShiftRows(frame[t].s),
            <<Callee("ShiftRows")>>, frame[t].round, frame[t].cnt)

\* MixColumns(&s);
EncRoundMixColumns(t) ==
  LocalStep(t, "encrypt", "mix", "ark", MixColumns(frame[t].s),
            <<Callee("MixColumns")>>, frame[t].round, frame[t].cnt)

\* AddRoundKey(&s, rounds++); then round++.
EncRoundAddRoundKey(t) ==
  AddRoundKeyStep(t, "encrypt", "ark", "loop", 1, frame[t].round + 1,
                  <<frame[t].cnt[1] + 1, frame[t].cnt[2]>>)

\* round < nrounds fails: the SubBytes(&s) after the loop.
EncFinalSubBytes(t) ==
  /\ ~RoundTest(frame[t].round, frame[t].nrounds)
  /\ LocalStep(t, "encrypt", "loop", "fshift", SubBytesOf(build, frame[t].s),
               <<Br("round < nrounds", FALSE)>> \o SubBytesTrace(build, frame[t].s, 0),
               frame[t].round, frame[t].cnt)

\* ShiftRows(&s);
EncFinalShiftRows(t) ==
  LocalStep(t, "encrypt", "fshift", "fark", ShiftRows(frame[t].s),
            <<Callee("ShiftRows")>>, frame[t].round, frame[t].cnt)

\* AddRoundKey(&s, rounds);
EncFinalAddRoundKey(t) ==
  AddRoundKeyStep(t, "encrypt", "fark", "save", 0, frame[t].round,
                  <<frame[t].cnt[1], frame[t].cnt[2] + 1>>)

\* SaveBytes(cipher16, &s); and AES_encrypt returns.
EncSaveBytes(t) ==
  LET f == frame[t]
      r == WriteBlock(buf[t], f.in, f.out, f.s)
  IN  /\ f.op = "encrypt" /\ f.pc = "save"
      /\ buf' = [buf EXCEPT ![t] = r.mem]
      /\ frame' = [frame EXCEPT ![t] =
                     [f EXCEPT !.pc = "done", !.acc = @ \o r.acc,
                               !.tr = Append(@, Callee("SaveBytes"))]]
      /\ UNCHANGED <<variant, build, ctx, todo, log, ckey, sched>>

\* The caller enters AESxxx_decrypt(&ctx[c], out, in); s and round are not
\* initialised.
CallDecrypt(t) ==
  /\ frame[t].op = "idle"
  /\ todo[t] # <<>>
  /\ Head(todo[t]).op = "decrypt"
  /\ Ready(Head(todo[t]).c)
  /\ \E g \in Junk :
       frame' = [frame EXCEPT ![t] =
                   [IdleFrame EXCEPT
                      !.op = "decrypt", !.pc = "load", !.c = Head(todo[t]).c,
                      !.in = Head(todo[t]).in, !.out = Head(todo[t]).out,
                      !.nrounds = NRounds[variant], !.rounds = 0,
                      !.s = JunkState(g), !.round = 0,
                      !.kidx = ckey[Head(todo[t]).c],
                      !.gen = WriteCount(Head(todo[t]).c),
                      !.arg = buf[t][Head(todo[t]).in]]]
  /\ todo' = [todo EXCEPT ![t] = Tail(@)]
  /\ UNCHANGED <<variant, build, ctx, buf, log, ckey, sched>>

\* rounds += nrounds; LoadBytes(&s, cipher16);
DecLoadBytes(t) ==
  LET f == frame[t]
      r == ReadBlock(buf[t], f.in, f.out, f.s)
  IN  /\ f.op = "decrypt" /\ f.pc = "load"
      /\ buf' = [buf EXCEPT ![t] = r.mem]
      /\ frame' = [frame EXCEPT ![t] =
                     [f EXCEPT !.rounds = @ + f.nrounds, !.s = r.s, !.pc = "ark0",
                               !.acc = @ \o r.acc,
                               !.tr = Append(@, Callee("LoadBytes"))]]
      /\ UNCHANGED <<variant, build, ctx, todo, log, ckey, sched>>

\* AddRoundKey(&s, rounds--); then round = 1.
DecAddRoundKey0(t) ==
  AddRoundKeyStep(t, "decrypt", "ark0", "loop", -1, 1, frame[t].cnt)

\* round < nrounds holds: InvShiftRows(&s);
DecRoundInvShiftRows(t) ==
  /\ RoundTest(frame[t].round, frame[t].nrounds)
  /\ LocalStep(t, "decrypt", "loop", "sub", InvShiftRows(frame[t].s),
               <<Br("round < nrounds", TRUE), Callee("InvShiftRows")>>,
               frame[t].round, frame[t].cnt)

\* InvSubBytes(&s);
DecRoundInvSubBytes(t) ==
  LocalStep(t, "decrypt", "sub", "ark", InvSubBytesOf(build, frame[t].s),
            SubBytesTrace(build, frame[t].s, 1), frame[t].round, frame[t].cnt)

\* AddRoundKey(&s, rounds--);
DecRoundAddRoundKey(t) ==
  AddRoundKeyStep(t, "decrypt", "ark", "mix", -1, frame[t].round, frame[t].cnt)

\* A faulty DecRoundInvMixColumns: MixColumns(&s) in place of InvMixColumns(&s).
DecRoundMixColumns(t) ==
  LocalStep(t, "decrypt", "mix", "loop", MixColumns(frame[t].s),
            <<Callee("MixColumns")>>, frame[t].round + 1,
            <<frame[t].cnt[1] + 1, frame[t].cnt[2]>>)

\* InvMixColumns(&s); then round++.
DecRoundInvMixColumns(t) ==
  LocalStep(t, "decrypt", "mix", "loop", InvMixColumns(frame[t].s),
            <<Callee("InvMixColumns")>>, frame[t].round + 1,
            <<frame[t].cnt[1] + 1, frame[t].cnt[2]>>)

\* round < nrounds fails: the InvShiftRows(&s) after the loop.
DecFinalInvShiftRows(t) ==
  /\ ~RoundTest(frame[t].round, frame[t].nrounds)
  /\ LocalStep(t, "decrypt", "loop", "fsub", InvShiftRows(frame[t].s),
               <<Br("round < nrounds", FALSE), Callee("InvShiftRows")>>,
               frame[t].round, frame[t].cnt)

\* InvSubBytes(&s);
DecFinalInvSubBytes(t) ==
  LocalStep(t, "decrypt", "fsub", "fark", InvSubBytesOf(build, frame[t].s),
            SubBytesTrace(build, frame[t].s, 1), frame[t].round, frame[t].cnt)

\* AddRoundKey(&s, rounds);
DecFinalAddRoundKey(t) ==
  AddRoundKeyStep(t, "decrypt", "fark", "save", 0, frame[t].round,
                  <<frame[t].cnt[1], frame[t].cnt[2] + 1>>)

\* SaveBytes(plain16, &s); and AES_decrypt returns.
DecSaveBytes(t) ==
  LET f == frame[t]
      r == WriteBlock(buf[t], f.in, f.out, f.s)
  IN  /\ f.op = "decrypt" /\ f.pc = "save"
      /\ buf' = [buf EXCEPT ![t] = r.mem]
      /\ frame' = [frame EXCEPT ![t] =
                     [f EXCEPT !.pc = "done", !.acc = @ \o r.acc,
                               !.tr = Append(@, Callee("SaveBytes"))]]
      /\ UNCHANGED <<variant, build, ctx, todo, log, ckey, sched>>

(***************************************************************************)
(* AddRoundKey has external linkage: a caller in another translation unit  *)
(* can call it on any two AES_state objects, the round keys of a context   *)
(* among them.                                                             *)
(***************************************************************************)
\* The caller enters AddRoundKey(&ctx[c].rk[out], &ctx[c].rk[in]) on a context
\* that is initialised and that no other call uses.
CallAddRoundKey(t) ==
  /\ frame[t].op = "idle"
  /\ todo[t] # <<>>
  /\ Head(todo[t]).op = "addroundkey"
  /\ Ready(Head(todo[t]).c)
  /\ Unused(Head(todo[t]).c, t)
  /\ Head(todo[t]).in \in 0..NRounds[variant]
  /\ Head(todo[t]).out \in 0..NRounds[variant]
  /\ frame' = [frame EXCEPT ![t] =
                 [IdleFrame EXCEPT
                    !.op = "addroundkey", !.pc = "xor", !.c = Head(todo[t]).c,
                    !.in = Head(todo[t]).in, !.out = Head(todo[t]).out,
                    !.kidx = Tampered,
                    !.gen = WriteCount(Head(todo[t]).c)]]
  /\ todo' = [todo EXCEPT ![t] = Tail(@)]
  /\ UNCHANGED <<variant, build, ctx, buf, log, ckey, sched>>

\* for (b = 0; b < 8; b++) s->slice[b] ^= round->slice[b]; with s and round
\* pointing into the context (to one slot when in = out).
AddRoundKeyDirect(t) ==
  LET f == frame[t]
      r == AddRoundKey(ctx[f.c][f.out], ctx[f.c][f.in])
  IN  /\ f.op = "addroundkey" /\ f.pc = "xor"
      /\ ctx' = [ctx EXCEPT ![f.c] = [[@ EXCEPT ![f.in] = r.round] EXCEPT ![f.out] = r.s]]
      /\ frame' = [frame EXCEPT ![t] =
                     [f EXCEPT !.pc = "done", !.tr = Append(@, Callee("AddRoundKey"))]]
      /\ UNCHANGED <<variant, build, buf, todo, log, ckey, sched>>

(***************************************************************************)
(* Return to the caller.  The history records the call: its arguments, its *)
(* result (the output block, or the round-key array for a call that writes *)
(* the context), what it showed of its control flow, and its iteration     *)
(* counts.                                                                 *)
(***************************************************************************)
\* What the call on thread t has produced: the round-key array for an init
\* and for a call of AddRoundKey by the caller, the output block otherwise.
Result(t) == IF frame[t].op \in Writers THEN ctx[frame[t].c] ELSE buf[t][frame[t].out]

\* What the history keeps of the call on thread t.
CallRecord(t) ==
  LET f == frame[t]
  IN  [op |-> f.op, c |-> f.c, in |-> f.in, out |-> f.out, kidx |-> f.kidx,
       gen |-> f.gen, arg |-> f.arg, res |-> Result(t), tr |-> f.tr, cnt |-> f.cnt]

Return(t) ==
  LET f == frame[t]
  IN  /\ f.op # "idle" /\ f.pc = "done"
      /\ frame' = [frame EXCEPT ![t] = IdleFrame]
      /\ log' = [log EXCEPT ![t] = Append(@, CallRecord(t))]
      /\ ckey' = IF f.op \in Writers THEN [ckey EXCEPT ![f.c] = f.kidx] ELSE ckey
      /\ sched' = IF f.op \in Writers THEN [sched EXCEPT ![f.c] = ctx[f.c]] ELSE sched
      /\ UNCHANGED <<variant, build, ctx, buf, todo>>

Step(t) ==
  \/ CallInit(t) \/ SetupFirstBody(t) \/ SetupFirstExit(t)
  \/ SetupSecondBody(t) \/ SetupSecondExit(t)
  \/ CallEncrypt(t) \/ EncLoadBytes(t) \/ EncAddRoundKey0(t)
  \/ EncRoundSubBytes(t) \/ EncRoundShiftRows(t) \/ EncRoundMixColumns(t)
  \/ EncRoundAddRoundKey(t)
  \/ EncFinalSubBytes(t) \/ EncFinalShiftRows(t) \/ EncFinalAddRoundKey(t)
  \/ EncSaveBytes(t)
  \/ CallDecrypt(t) \/ DecLoadBytes(t) \/ DecAddRoundKey0(t)
  \/ DecRoundInvShiftRows(t) \/ DecRoundInvSubBytes(t) \/ DecRoundAddRoundKey(t)
  \/ DecRoundInvMixColumns(t)
  \/ DecFinalInvShiftRows(t) \/ DecFinalInvSubBytes(t) \/ DecFinalAddRoundKey(t)
  \/ DecSaveBytes(t)
  \/ CallAddRoundKey(t) \/ AddRoundKeyDirect(t)
  \/ Return(t)

Next == \E t \in Threads : Step(t)

(***************************************************************************)
(* Callers.                                                                *)
(***************************************************************************)
\* Programs of a single-threaded caller with one or two contexts and two
\* buffers: a round trip through two buffers, then the block encrypted under
\* a second key and decrypted in place; a round trip in place; one block
\* processed twice (into the other buffer, then in place); contexts
\* initialised over junk and over an earlier key schedule; and a block
\* encrypted before and after the caller's AddRoundKey(&ctx.rk[0], &ctx.rk[1]),
\* then decrypted.
Programs ==
  { <<Call("init", 1, 0, 0), Call("encrypt", 1, 1, 2), Call("decrypt", 1, 2, 1),
      Call("init", 1, 0, 0), Call("encrypt", 1, 2, 1), Call("decrypt", 1, 1, 1)>>,
    <<Call("init", 1, 0, 0), Call("encrypt", 1, 1, 1), Call("decrypt", 1, 1, 1)>>,
    <<Call("init", 1, 0, 0), Call("encrypt", 1, 1, 2), Call("encrypt", 1, 1, 1)>>,
    <<Call("init", 1, 0, 0), Call("decrypt", 1, 1, 2), Call("decrypt", 1, 1, 1)>>,
    <<Call("init", 1, 0, 0), Call("init", 2, 0, 0), Call("init", 1, 0, 0)>>,
    <<Call("init", 1, 0, 0), Call("encrypt", 1, 1, 2), Call("addroundkey", 1, 1, 0),
      Call("encrypt", 1, 1, 2), Call("decrypt", 1, 2, 2)>> }

\* The state before any call: the contexts and the second buffer of each
\* thread hold junk, the first buffer holds a block n of ns (the next block
\* on the second thread).
InitMemory(ns) ==
  /\ variant \in Variants
  /\ build \in Builds
  /\ \E g \in Junk :
       /\ ctx = [c \in CtxIds |-> [r \in 0..NRounds[variant] |->
                                   JunkState(IF c = 1 THEN g + r ELSE r + 1)]]
       /\ \E n \in ns :
            buf = [t \in Threads |->
                     [b \in BufIds |-> IF b = 1 THEN BlockBytes((n + t - 1) % NBlocks)
                                       ELSE JunkBlock(1)]]
  /\ frame = [t \in Threads |-> IdleFrame]
  /\ log = [t \in Threads |-> <<>>]
  /\ ckey = [c \in CtxIds |-> NoKey]
  /\ sched = [c \in CtxIds |-> <<>>]

Init ==
  /\ InitMemory(0..(NBlocks - 1))
  /\ \E p \in Programs : todo = [t \in Threads |-> IF t = 1 THEN p ELSE <<>>]

Spec == Init /\ [][Next]_vars

\* A caller that makes one call of each operation (a round trip in place,
\* then AddRoundKey on the context), every thread that can take a step eventually taking it: a call, once
\* entered, runs on the processor until it returns.
FairPrograms ==
  { <<Call("init", 1, 0, 0), Call("encrypt", 1, 1, 1), Call("decrypt", 1, 1, 1),
      Call("addroundkey", 1, 1, 0)>> }

InitFair ==
  /\ InitMemory(0..(NBlocks - 1))
  /\ \E p \in FairPrograms : todo = [t \in Threads |-> IF t = 1 THEN p ELSE <<>>]

FairSpec == InitFair /\ [][Next]_vars /\ \A t \in Threads : WF_vars(Step(t))

\* Two threads on one context: the first initialises it, then each thread
\* makes one call of encrypt or decrypt, the steps of the two calls
\* interleaving freely on the context as init left it; once its call has
\* returned and no call uses the context, the first thread adds round key 1
\* to round key 0.
ConcPrograms ==
  { [t \in Threads |-> IF t = 1 THEN <<Call("init", 1, 0, 0), Call("encrypt", 1, 1, 2),
                                      Call("addroundkey", 1, 1, 0)>>
                       ELSE <<y>>] :
      y \in {Call("encrypt", 1, 1, 1), Call("decrypt", 1, 1, 2)} }

InitConc ==
  /\ InitMemory({0})
  /\ todo \in ConcPrograms

SpecConc == InitConc /\ [][Next]_vars

(***************************************************************************)
(* Properties.  They speak of the calls that have produced their result:   *)
(* those the history holds and those that stand at their return.           *)
(***************************************************************************)
AtReturn(t) == frame[t].op # "idle" /\ frame[t].pc = "done"

Calls == {Entry(id) : id \in CallIds} \cup {CallRecord(t) : t \in {u \in Threads : AtReturn(u)}}

\* The call ran on a context that held the schedule init made of a key: no
\* call of AddRoundKey by the caller had written it since.
Keyed(e) == e.kidx \notin {NoKey, Tampered}

\* A 16-byte block written as a tuple.
Block(seq) == [j \in 0..15 |-> seq[j + 1]]

ZeroBlock == [j \in 0..15 |-> 0]

\* C1: for each variant, every key K and every block P, after init(ctx, K)
\* decrypting what encrypt returned for P returns exactly P: whenever a
\* decrypt call was given, under key K, the output of an encrypt call under
\* K, its output is that encrypt call's input (both on contexts that hold
\* what init made of K).
RoundTrip ==
  \A e \in Calls : \A d \in Calls :
    (e.op = "encrypt" /\ d.op = "decrypt" /\ Keyed(e) /\ d.kidx = e.kidx /\ d.arg = e.res)
      => d.res = e.arg

\* The all-zero key and the all-zero block have gone through encrypt, which
\* changed the block, and decrypt, which returned it.
RoundTripSeen ==
  \E e \in Calls : \E d \in Calls :
    /\ e.op = "encrypt" /\ d.op = "decrypt" /\ Keyed(e) /\ d.kidx = e.kidx /\ d.arg = e.res
    /\ \A j \in DOMAIN KeyBytes(variant, e.kidx) : KeyBytes(variant, e.kidx)[j] = 0
    /\ e.arg = ZeroBlock
    /\ e.res # ZeroBlock
    /\ d.res = ZeroBlock

\* The ciphertexts of FIPS-197 Appendix B and Appendix C.1, C.2, C.3.
CipherB ==
  <<57, 37, 132, 29, 2, 220, 9, 251,
    220, 17, 133, 151, 25, 106, 11, 50>>

CipherC ==
  [AES128 |-> <<105, 196, 224, 216, 106, 123, 4, 48,
                216, 205, 183, 128, 112, 180, 197, 90>>,
   AES192 |-> <<221, 169, 124, 164, 134, 76, 223, 224,
                110, 175, 112, 160, 236, 13, 113, 145>>,
   AES256 |-> <<142, 162, 183, 202, 81, 103, 69, 191,
                234, 252, 73, 144, 75, 73, 96, 137>>]

\* The key 00 01 02 ... of the variant's length, and the key of Appendix B.
IsKeyC(key) == \A j \in DOMAIN key : key[j] = j

IsKeyB(key) == variant = "AES128" /\ \A j \in DOMAIN key : key[j] = KeyB128[j + 1]

\* C2: init followed by encrypt reproduces the known answers of FIPS-197:
\* AES-128 under 2b7e1516... maps 3243f6a8... to 3925841d..., and under the
\* key 00 01 02 ... the block 00112233... maps to 69c4e0d8... (AES-128),
\* dda97ca4... (AES-192) and 8ea2b7ca... (AES-256).
KnownAnswers ==
  \A e \in Calls :
    (e.op = "encrypt" /\ Keyed(e)) =>
      /\ (IsKeyB(KeyBytes(variant, e.kidx)) /\ e.arg = Block(BlockB))
            => e.res = Block(CipherB)
      /\ (IsKeyC(KeyBytes(variant, e.kidx)) /\ e.arg = Block(BlockC))
            => e.res = Block(CipherC[variant])

\* The vector of Appendix B has been encrypted.
KnownAnswerSeen ==
  \E e \in Calls :
    /\ e.op = "encrypt" /\ Keyed(e)
    /\ IsKeyB(KeyBytes(variant, e.kidx))
    /\ e.arg = Block(BlockB)
    /\ e.res = Block(CipherB)

\* The indices an array of the program admits.
IndexRange(array) ==
  IF array = "rounds" THEN 0..NRounds[variant]
  ELSE IF array = "rk" THEN 0..7
  ELSE {}

\* C3: for each variant and each operation, two executions that differ only
\* in key bytes and block bytes (and in what uninitialised memory held) take
\* the same branch decisions and access the same array indices, in the same
\* order; the indices are round-key indices 0..Nr and ring positions 0..7.
ConstantTime ==
  /\ \A e \in Calls : \A f \in Calls : e.op = f.op => e.tr = f.tr
  /\ \A e \in Calls : \A n \in 1..Len(e.tr) :
       e.tr[n][1] = "ix" => e.tr[n][3] \in IndexRange(e.tr[n][2])

\* Each operation has run twice, under two keys and, for encrypt and decrypt,
\* on two blocks, passing branches and array accesses both times.
ConstantTimeSeen ==
  \A op \in {"setup", "encrypt", "decrypt"} :
    \E e \in Calls : \E f \in Calls :
      /\ e.op = op /\ f.op = op
      /\ e.kidx # f.kidx
      /\ op # "setup" => e.arg # f.arg
      /\ e.tr = f.tr
      /\ \E n \in 1..Len(e.tr) : e.tr[n][1] = "br"
      /\ \E n \in 1..Len(e.tr) : e.tr[n][1] = "ix"

\* C4: encrypt and decrypt do not modify the context: while no call that
\* writes it (init, or AddRoundKey called on its round keys) runs on an
\* initialised context, every slice of every round key is what it was when
\* the last such call returned (when init returned, if it is the last),
\* whatever encrypt and decrypt calls have run or are running; and two
\* encrypt calls on one block under one context, with no such call between
\* them, return the same output.
ContextKept ==
  /\ \A c \in CtxIds : Ready(c) => ctx[c] = sched[c]
  /\ \A e \in Calls : \A f \in Calls :
       (e.op = "encrypt" /\ f.op = "encrypt" /\ e.c = f.c /\ e.gen = f.gen /\ e.arg = f.arg)
         => e.res = f.res

\* One block has been encrypted twice under one context (into two different
\* buffers), and the context is as init left it.
ContextKeptSeen ==
  \E e \in Calls : \E f \in Calls :
    /\ e.op = "encrypt" /\ f.op = "encrypt" /\ e.c = f.c /\ e.gen = f.gen /\ e.arg = f.arg
    /\ e.out # f.out
    /\ e.res = f.res
    /\ e.res # e.arg
    /\ Keyed(e) /\ ckey[e.c] = e.kidx
    /\ Ready(e.c) /\ ctx[e.c] = sched[e.c]

\* What a call of encrypt or decrypt returns when it runs alone: the value
\* of AES_encrypt or AES_decrypt on the context as the last call that writes
\* it left it.
Alone(f) ==
  IF f.op = "encrypt"
  THEN AES_encrypt(build, sched[f.c], f.nrounds, f.arg, JunkState(0))
  ELSE AES_decrypt(build, sched[f.c], f.nrounds, f.arg, JunkState(0))

InCipher(t) == frame[t].op \in {"encrypt", "decrypt"}

\* A step of thread t inside encrypt or decrypt leaves the contexts, and the
\* frames and buffers of the other threads, as they were.
StepIsLocal(t) ==
  (InCipher(t) /\ frame'[t] # frame[t])
    => /\ ctx' = ctx
       /\ \A u \in Threads \ {t} : frame'[u] = frame[u] /\ buf'[u] = buf[u]

\* C5: when several threads run encrypt and/or decrypt on one initialised
\* context, their steps interleaved in any order, each call returns the
\* output it returns when it runs alone, and no step of a call writes the
\* context or anything another thread reads.
ConcurrentUse ==
  /\ [](\A t \in Threads : (InCipher(t) /\ AtReturn(t)) => Result(t) = Alone(frame[t]))
  /\ [][\A t \in Threads : StepIsLocal(t)]_vars

\* Two calls are in progress on one context, which holds what init made of
\* a key: one has produced its output, which is the output of the call alone,
\* the other is inside its rounds.
ConcurrentUseSeen ==
  \E t \in Threads : \E u \in Threads \ {t} :
    /\ InCipher(t) /\ AtReturn(t)
    /\ InCipher(u) /\ frame[u].c = frame[t].c
    /\ Keyed(frame[t]) /\ Keyed(frame[u])
    /\ ckey[frame[t].c] = frame[t].kidx /\ ctx[frame[t].c] = sched[frame[t].c]
    /\ frame[u].pc \notin {"load", "ark0", "save", "done"}
    /\ frame[u].round >= 2
    /\ frame[u].op # frame[t].op
    /\ Result(t) = Alone(frame[t])
    /\ Result(t) # frame[t].arg

\* The accesses to the caller's buffers that come before access n of a call.
Before(a, n) == {a[m] : m \in 1..(n - 1)}

\* C6: in every encrypt and decrypt call all 16 input bytes are read before
\* the first output byte is written, and a call whose output buffer is its
\* input buffer returns the same 16 bytes as a call, on the same block under
\* the same key (each on a context that holds what init made of the key),
\* whose buffers are disjoint.
ReadBeforeWrite ==
  /\ \A t \in Threads :
       InCipher(t) =>
         \A n \in 1..Len(frame[t].acc) :
           frame[t].acc[n][1] = "W" =>
             /\ \A k \in 0..15 : <<"R", frame[t].in, k>> \in Before(frame[t].acc, n)
             /\ \A m \in (n + 1)..Len(frame[t].acc) : frame[t].acc[m][1] = "W"
  /\ \A e \in Calls : \A f \in Calls :
       (e.op = f.op /\ e.op \in {"encrypt", "decrypt"} /\ Keyed(e) /\ e.kidx = f.kidx /\ e.arg = f.arg
          /\ e.in = e.out /\ f.in # f.out)
         => e.res = f.res

\* A call has overwritten its input block with its output, after 16 reads and
\* 16 writes, and the output is that of an earlier call on the same block
\* whose buffers were disjoint.
ReadBeforeWriteSeen ==
  \E t \in Threads : \E f \in Calls :
    /\ InCipher(t) /\ AtReturn(t)
    /\ frame[t].in = frame[t].out
    /\ Len(frame[t].acc) = 32
    /\ frame[t].acc[16][1] = "R" /\ frame[t].acc[17][1] = "W"
    /\ f.op = frame[t].op /\ Keyed(f) /\ f.kidx = frame[t].kidx /\ f.arg = frame[t].arg
    /\ f.in # f.out
    /\ Result(t) = f.res
    /\ Result(t) # frame[t].arg

\* C7: the schedule init produces is a function of the key alone: two init
\* calls with the same key leave contexts that are equal slice for slice,
\* whatever the contexts held before (junk, or the schedule of another key).
ScheduleOfKey ==
  \A e \in Calls : \A f \in Calls :
    (e.op = "setup" /\ f.op = "setup" /\ e.kidx = f.kidx) => e.res = f.res

\* One key has been scheduled into a context that held junk and into a
\* context that held the schedule of another key, with equal results.
ScheduleOfKeySeen ==
  \E e \in Calls : \E f \in Calls : \E g \in Calls :
    /\ e.op = "setup" /\ f.op = "setup" /\ g.op = "setup"
    /\ e.c = g.c /\ e.gen < g.gen /\ e.kidx # g.kidx
    /\ f.c # g.c /\ f.gen = 0 /\ f.kidx = g.kidx
    /\ f.res = g.res
    /\ g.res # e.res

(***************************************************************************)
(* The bit-slice codec by itself: LoadBytes on a block of the caller, then *)
(* SaveBytes into the caller's other buffer.                               *)
(***************************************************************************)
\* The blocks with a single one bit, the blocks of one repeated byte, and
\* the blocks of the callers above.
CodecBlocks ==
  {[j \in 0..15 |-> IF j = k THEN 2 ^ p ELSE 0] : k \in 0..15, p \in 0..7}
    \cup {[j \in 0..15 |-> v] : v \in {0, 165, 255}}
    \cup {BlockBytes(n) : n \in 0..(NBlocks - 1)}

InitCodec ==
  /\ variant \in Variants
  /\ build \in Builds
  /\ ctx = [c \in CtxIds |-> [r \in 0..NRounds[variant] |-> JunkState(r)]]
  /\ \E data16 \in CodecBlocks :
       buf = [t \in Threads |-> [b \in BufIds |-> IF b = 1 THEN data16 ELSE JunkBlock(1)]]
  /\ frame = [t \in Threads |-> IdleFrame]
  /\ todo = [t \in Threads |-> IF t = 1 THEN <<Call("codec", 1, 1, 2)>> ELSE <<>>]
  /\ log = [t \in Threads |-> <<>>]
  /\ ckey = [c \in CtxIds |-> NoKey]
  /\ sched = [c \in CtxIds |-> <<>>]

\* AES_state s; LoadBytes(&s, in16): s is not initialised.
CodecLoad(t) ==
  /\ frame[t].op = "idle"
  /\ todo[t] # <<>>
  /\ Head(todo[t]).op = "codec"
  /\ \E g \in Junk :
       frame' = [frame EXCEPT ![t] =
                   [IdleFrame EXCEPT
                      !.op = "codec", !.pc = "save",
                      !.in = Head(todo[t]).in, !.out = Head(todo[t]).out,
                      !.arg = buf[t][Head(todo[t]).in],
                      !.s = ReadBlock(buf[t], Head(todo[t]).in, Head(todo[t]).out, JunkState(g)).s]]
  /\ todo' = [todo EXCEPT ![t] = Tail(@)]
  /\ UNCHANGED <<variant, build, ctx, buf, log, ckey, sched>>

\* SaveBytes(out16, &s);
CodecSave(t) ==
  /\ frame[t].op = "codec" /\ frame[t].pc = "save"
  /\ buf' = [buf EXCEPT ![t] = WriteBlock(@, frame[t].in, frame[t].out, frame[t].s).mem]
  /\ frame' = [frame EXCEPT ![t].pc = "done"]
  /\ UNCHANGED <<variant, build, ctx, todo, log, ckey, sched>>

NextCodec == \E t \in Threads : CodecLoad(t) \/ CodecSave(t)

SpecCodec == InitCodec /\ [][NextCodec]_vars

\* C8: SaveBytes(LoadBytes(B)) = B for every 16-byte block B, LoadBytes
\* placing bit i (the least significant being bit 0) of input byte 4c + r
\* at bit position 4r + c of slice word i, for r, c in 0..3 and i in 0..7.
CodecRoundTrip ==
  \A t \in Threads :
    frame[t].op = "codec" =>
      /\ \A i \in 0..7 :
           /\ frame[t].s[i] \subseteq 0..15
           /\ \A r \in 0..3 : \A c \in 0..3 :
                ((4 * r + c) \in frame[t].s[i]) <=> (i \in ByteBits[frame[t].arg[4 * c + r]])
      /\ frame[t].pc = "done" => buf[t][frame[t].out] = frame[t].arg

\* The block whose only one bit is bit 5 of byte 6 (c = 1, r = 2) has been
\* loaded over junk, which set bit 9 of slice 5 and nothing else, and saved.
CodecRoundTripSeen ==
  \E t \in Threads :
    /\ frame[t].op = "codec" /\ frame[t].pc = "done"
    /\ frame[t].arg = [j \in 0..15 |-> IF j = 6 THEN 32 ELSE 0]
    /\ frame[t].s = [i \in 0..7 |-> IF i = 5 THEN {9} ELSE {}]
    /\ buf[t][frame[t].out] = frame[t].arg
    /\ buf[t][frame[t].out] # JunkBlock(1)

\* The number of rounds Nr of each variant (FIPS-197, figure 4).
Nr == [AES128 |-> 10, AES192 |-> 12, AES256 |-> 14]

\* The loop iterations a finished call has run: in all for init, in the
\* round loop and after it for encrypt and decrypt.
IterationsFixed(e) ==
  IF e.op = "setup"
  THEN e.cnt[1] + e.cnt[2] = 4 * (Nr[variant] + 1)
  ELSE e.cnt = <<Nr[variant] - 1, 1>>

\* C9: every call of init, encrypt or decrypt terminates, for every key and
\* every block, after a number of loop iterations the variant alone fixes:
\* 4 * (Nr + 1) word iterations for init, Nr - 1 loop rounds and the final
\* round for encrypt and decrypt, Nr being 10, 12, 14 for AES-128, AES-192,
\* AES-256.
Terminates ==
  /\ \A t \in Threads : \A op \in {"setup", "encrypt", "decrypt"} :
       (frame[t].op = op) ~> (AtReturn(t) /\ frame[t].op = op)
  /\ [](\A e \in Calls : e.op \in {"setup", "encrypt", "decrypt"} => IterationsFixed(e))

\* A decrypt call stands at its return after Nr - 1 loop rounds and the
\* final round, the init and the encrypt before it having returned after
\* theirs.
TerminatesSeen ==
  \E t \in Threads :
    /\ AtReturn(t) /\ frame[t].op = "decrypt"
    /\ frame[t].cnt = <<Nr[variant] - 1, 1>>
    /\ frame[t].round = Nr[variant]
    /\ \E e \in Calls : e.op = "setup" /\ e.cnt = <<NKeywords[variant], 4 * (Nr[variant] + 1) - NKeywords[variant]>>
    /\ \E e \in Calls : e.op = "encrypt" /\ e.cnt = <<Nr[variant] - 1, 1>>

\* The number of key words Nk of each variant (FIPS-197, figure 4).
Nk == [AES128 |-> 4, AES192 |-> 6, AES256 |-> 8]

\* The round key FIPS-197 forms of the words w[4r], ..., w[4r + 3] of the
\* full array (w[j + 1] here), in sliced form.
RoundKeyOf(w, r) == LoadWords(JunkState(1), w[4 * r + 1], w[4 * r + 2], w[4 * r + 3], w[4 * r + 4])

\* The ring of an init that is about to compute word i, against the full
\* array w of the key expansion of FIPS-197.
RingHoldsWords(f) ==
  /\ f.nkeywords = Nk[variant] /\ f.nrounds = Nr[variant]
  /\ Len(f.w) = f.i
  /\ f.rounds = f.i \div 4
  /\ \A r \in 0..(f.rounds - 1) : ctx[f.c][r] = RoundKeyOf(f.w, r)
  /\ (f.pc = "second" /\ f.i < 4 * (Nr[variant] + 1)) =>
       /\ f.rk[(f.i + 7) % 8] = f.w[f.i]
       /\ f.rk[(f.i + 8 - Nk[variant]) % 8] = f.w[f.i - Nk[variant] + 1]
       /\ f.pos = f.i % Nk[variant]
  /\ f.pc = "done" => f.i = 4 * (Nr[variant] + 1)

\* C10: for (Nk, Nr) = (4, 10), (6, 12), (8, 14) and every key, the 8-word
\* ring of AES_setup produces the words of the FIPS-197 key expansion on the
\* full array w[0..4(Nr+1)-1]: when word i is computed the slots (i + 7) & 7
\* and (i + 8 - Nk) & 7 hold w[i-1] and w[i-Nk] (for Nk = 8 the slot read is
\* the one about to be overwritten), SubWord(RotWord) xor Rcon is applied
\* exactly when i mod Nk = 0 and SubWord alone exactly when Nk > 6 and
\* i mod Nk = 4, and round-key slot r receives LoadWords(w[4r], ..., w[4r+3]).
RingIsKeyExpansion ==
  \A t \in Threads : frame[t].op = "setup" => RingHoldsWords(frame[t])

\* An AES-256 init is about to compute word 12: i mod Nk = 4, the slot it
\* reads w[4] from is slot 4, which it then overwrites, and three round keys
\* have been stored.
RingIsKeyExpansionSeen ==
  \E t \in Threads :
    /\ frame[t].op = "setup" /\ frame[t].pc = "second"
    /\ frame[t].nkeywords = 8 /\ frame[t].i = 12 /\ frame[t].pos = 4
    /\ frame[t].rk[4] = frame[t].w[5]
    /\ frame[t].rk[3] = frame[t].w[12]
    /\ frame[t].w[9] = Xor(frame[t].w[1], Xor(SubWord(build, RotWord(frame[t].w[8])), Shl({0}, 24)))
    /\ frame[t].rounds = 3
    /\ ctx[frame[t].c][2] = RoundKeyOf(frame[t].w, 2)
    /\ frame[t].kidx = 1

\* The events of a trace that are accesses to one array, and those that are
\* calls of one function.
Accesses(tr, array) == SelectSeq(tr, LAMBDA ev : ev[1] = "ix" /\ ev[2] = array)

CallsOf(tr, name) == SelectSeq(tr, LAMBDA ev : ev[1] = "call" /\ ev[2] = name)

\* The round-key slots 0, 1, ..., n - 1 in increasing order.
SlotsUpTo(n) == [r \in 1..n |-> <<"ix", "rounds", r - 1>>]

\* C11: init for a variant with Nr rounds performs exactly Nr + 1 LoadWords
\* writes into the context, to the round-key slots 0, 1, ..., Nr in
\* increasing order and each slot once (11, 13, 15 slots); it never writes a
\* slot above Nr, leaves no slot unwritten, and every index into the ring is
\* within 0..7.
SlotsWrittenOnce ==
  /\ \A t \in Threads :
       frame[t].op = "setup" =>
         /\ Accesses(frame[t].tr, "rounds") = SlotsUpTo(frame[t].rounds)
         /\ Len(CallsOf(frame[t].tr, "LoadWords")) = frame[t].rounds
         /\ frame[t].rounds <= Nr[variant] + 1
         /\ \A n \in 1..Len(frame[t].tr) :
              (frame[t].tr[n][1] = "ix" /\ frame[t].tr[n][2] = "rk") => frame[t].tr[n][3] \in 0..7
  /\ \A e \in Calls :
       e.op = "setup" =>
         /\ Accesses(e.tr, "rounds") = SlotsUpTo(Nr[variant] + 1)
         /\ Len(CallsOf(e.tr, "LoadWords")) = Nr[variant] + 1
         /\ Nr[variant] + 1 = (IF variant = "AES128" THEN 11 ELSE IF variant = "AES192" THEN 13 ELSE 15)

\* An AES-192 init stands at its return: 13 LoadWords calls have written
\* the slots 0..12, the last of them slot 12, and the ring has been indexed
\* at 0 and at 7.
SlotsWrittenOnceSeen ==
  \E t \in Threads :
    /\ AtReturn(t) /\ frame[t].op = "setup" /\ variant = "AES192"
    /\ Len(CallsOf(frame[t].tr, "LoadWords")) = 13
    /\ Accesses(frame[t].tr, "rounds")[13] = <<"ix", "rounds", 12>>
    /\ frame[t].rounds = 13
    /\ <<"ix", "rk", 0>> \in {frame[t].tr[n] : n \in 1..Len(frame[t].tr)}
    /\ <<"ix", "rk", 7>> \in {frame[t].tr[n] : n \in 1..Len(frame[t].tr)}

(***************************************************************************)
(* The round constant by itself: the update statement of AES_setup on any  *)
(* value of the uint8_t rcon, beside callers that make one init.           *)
(***************************************************************************)
\* The caller makes one init, or none and the update is tried on a value.
InitRcon ==
  /\ InitMemory({0})
  /\ \E p \in {<<Call("init", 1, 0, 0)>>, <<>>} :
       todo = [t \in Threads |-> IF t = 1 THEN p ELSE <<>>]

\* uint8_t rcon = v, for any v.
RconChoose(t) ==
  /\ frame[t].op = "idle" /\ todo[t] = <<>> /\ log[t] = <<>> /\ t = 1
  /\ \E v \in 0..255 :
       frame' = [frame EXCEPT ![t] = [IdleFrame EXCEPT !.op = "rcon", !.pc = "update", !.i = v,
                                                       !.rcon = ByteBits[v]]]
  /\ UNCHANGED <<variant, build, ctx, buf, todo, log, ckey, sched>>

\* rcon = ((-(rcon >> 7)) & 0x1B) ^ (rcon << 1);
RconUpdate(t) ==
  /\ frame[t].op = "rcon" /\ frame[t].pc = "update"
  /\ frame' = [frame EXCEPT ![t].rcon = NextRcon(@), ![t].pc = "done"]
  /\ UNCHANGED <<variant, build, ctx, buf, todo, log, ckey, sched>>

NextRconSpec ==
  \E t \in Threads :
    \/ RconChoose(t) \/ RconUpdate(t)
    \/ CallInit(t) \/ SetupFirstBody(t) \/ SetupFirstExit(t)
    \/ SetupSecondBody(t) \/ SetupSecondExit(t)
    \/ (frame[t].op = "setup" /\ Return(t))

SpecRcon == InitRcon /\ [][NextRconSpec]_vars

\* Arithmetic on numbers 0..255, for reference: the sum without carries.
RECURSIVE ByteXor(_, _)
ByteXor(a, b) ==
  IF a = 0 THEN b
  ELSE IF b = 0 THEN a
  ELSE 2 * ByteXor(a \div 2, b \div 2) + ((a + b) % 2)

\* The round constants of FIPS-197: x^(j-1) in GF(2^8), j = 1..10.
RconList == <<1, 2, 4, 8, 16, 32, 64, 128, 27, 54>>

\* C12: the round constant is held in 8 bits and starts at 0x01; for every
\* 8-bit value the update ((-(rcon >> 7)) & 0x1B) ^ (rcon << 1), truncated
\* to 8 bits, is (rcon << 1) mod 256 xor 0x1B when the top bit of rcon is
\* set and rcon << 1 otherwise; the constants an AES-128 init applies are
\* 01, 02, 04, 08, 10, 20, 40, 80, 1b, 36, in that order.
RconRule ==
  \A t \in Threads :
    /\ frame[t].op \in {"rcon", "setup"} => frame[t].rcon \subseteq 0..7
    /\ (frame[t].op = "rcon" /\ frame[t].pc = "done") =>
         ByteVal(frame[t].rcon) = IF frame[t].i >= 128
                                  THEN ByteXor((2 * frame[t].i) % 256, 27)
                                  ELSE 2 * frame[t].i
    /\ (frame[t].op = "setup" /\ frame[t].pc = "first") => ByteVal(frame[t].rcon) = 1
    /\ (frame[t].op = "setup" /\ frame[t].pc = "second" /\ frame[t].pos = 0
          /\ frame[t].i < 4 * (Nr[variant] + 1)) =>
         ByteVal(frame[t].rcon) = RconList[frame[t].i \div Nk[variant]]

\* An AES-128 init is about to compute word 40, the last that takes a
\* constant: it applies 0x36, the update having gone through 0x80 and 0x1b.
RconRuleSeen ==
  \E t \in Threads :
    /\ frame[t].op = "setup" /\ frame[t].pc = "second" /\ variant = "AES128"
    /\ frame[t].i = 40 /\ frame[t].pos = 0
    /\ ByteVal(frame[t].rcon) = 54
    /\ ByteVal(NextRcon(ByteBits[128])) = 27
    /\ frame[t].kidx = 1

\* The calls and the round-key accesses of a trace, in order.
Layers(tr) == SelectSeq(tr, LAMBDA ev : ev[1] = "call" \/ (ev[1] = "ix" /\ ev[2] = "rounds"))

\* The decisions a trace shows on the direction flag of the merged SubBytes.
FlagTests(tr) == {tr[n][3] : n \in {m \in 1..Len(tr) : tr[m][1] = "br" /\ tr[m][2] = "inv"}}

\* s is a prefix of q.
IsPrefix(s, q) == Len(s) <= Len(q) /\ \A n \in 1..Len(s) : s[n] = q[n]

\* The name under which a file calls its S-box: part_000 has one SubBytes
\* with a direction flag.
SubName(inv) == IF build = "part_000" \/ inv = 0 THEN "SubBytes" ELSE "InvSubBytes"

\* The layers of an encryption with nr rounds, as FIPS-197 5.1 orders them.
EncryptLayers(nr) ==
  <<<<"call", "LoadBytes", 0>>, <<"ix", "rounds", 0>>, <<"call", "AddRoundKey", 0>>>>
  \o [n \in 1..(5 * (nr - 1)) |->
        <<<<"call", SubName(0), 0>>, <<"call", "ShiftRows", 0>>, <<"call", "MixColumns", 0>>,
          <<"ix", "rounds", ((n - 1) \div 5) + 1>>, <<"call", "AddRoundKey", 0>>>>[((n - 1) % 5) + 1]]
  \o <<<<"call", SubName(0), 0>>, <<"call", "ShiftRows", 0>>,
       <<"ix", "rounds", nr>>, <<"call", "AddRoundKey", 0>>, <<"call", "SaveBytes", 0>>>>

\* C13: encrypt applies, for every variant: Load; AddRoundKey with round
\* key 0; for each round r = 1..Nr-1 SubBytes, ShiftRows, MixColumns,
\* AddRoundKey with round key r; then SubBytes, ShiftRows, AddRoundKey with
\* round key Nr (no MixColumns); then Save.  Each round key 0..Nr is used
\* once, in ascending order, and no index outside 0..Nr is read.
EncryptOrder ==
  /\ \A t \in Threads :
       frame[t].op = "encrypt" =>
         /\ IsPrefix(Layers(frame[t].tr), EncryptLayers(Nr[variant]))
         /\ frame[t].rounds \in 0..Nr[variant]
         /\ FlagTests(frame[t].tr) \subseteq {0}
  /\ \A e \in Calls :
       e.op = "encrypt" =>
         /\ Layers(e.tr) = EncryptLayers(Nr[variant])
         /\ Accesses(e.tr, "rounds") = SlotsUpTo(Nr[variant] + 1)

\* An AES-256 encrypt stands at its return after 73 layers, of which 15
\* AddRoundKey and 13 MixColumns, the last round key being number 14.
EncryptOrderSeen ==
  \E t \in Threads :
    /\ AtReturn(t) /\ frame[t].op = "encrypt" /\ variant = "AES256"
    /\ Len(Layers(frame[t].tr)) = 73
    /\ Len(CallsOf(frame[t].tr, "AddRoundKey")) = 15
    /\ Len(CallsOf(frame[t].tr, "MixColumns")) = 13
    /\ Len(CallsOf(frame[t].tr, "SubBytes")) = 14
    /\ Accesses(frame[t].tr, "rounds")[15] = <<"ix", "rounds", 14>>
    /\ Result(t) # frame[t].arg

\* The layers of a decryption with nr rounds: the inverse cipher of
\* FIPS-197 5.3, the round keys taken from nr down to 0.
DecryptLayers(nr) ==
  <<<<"call", "LoadBytes", 0>>, <<"ix", "rounds", nr>>, <<"call", "AddRoundKey", 0>>>>
  \o [n \in 1..(5 * (nr - 1)) |->
        <<<<"call", "InvShiftRows", 0>>, <<"call", SubName(1), 0>>,
          <<"ix", "rounds", nr - 1 - ((n - 1) \div 5)>>, <<"call", "AddRoundKey", 0>>,
          <<"call", "InvMixColumns", 0>>>>[((n - 1) % 5) + 1]]
  \o <<<<"call", "InvShiftRows", 0>>, <<"call", SubName(1), 0>>,
       <<"ix", "rounds", 0>>, <<"call", "AddRoundKey", 0>>, <<"call", "SaveBytes", 0>>>>

\* The round-key slots n - 1, ..., 1, 0 in decreasing order.
SlotsDownFrom(n) == [r \in 1..n |-> <<"ix", "rounds", n - r>>]

\* C14: decrypt applies, for every variant: Load; AddRoundKey with round
\* key Nr; for each round r = Nr-1 down to 1 InvShiftRows, InvSubBytes,
\* AddRoundKey with round key r, InvMixColumns (AddRoundKey before
\* InvMixColumns); then InvShiftRows, InvSubBytes, AddRoundKey with round
\* key 0; then Save.  Each round key Nr..0 is used once, in descending
\* order, and no index outside 0..Nr is read.
DecryptOrder ==
  /\ \A t \in Threads :
       frame[t].op = "decrypt" =>
         /\ IsPrefix(Layers(frame[t].tr), DecryptLayers(Nr[variant]))
         /\ frame[t].rounds \in 0..Nr[variant]
         /\ FlagTests(frame[t].tr) \subseteq {1}
  /\ \A e \in Calls :
       e.op = "decrypt" =>
         /\ Layers(e.tr) = DecryptLayers(Nr[variant])
         /\ Accesses(e.tr, "rounds") = SlotsDownFrom(Nr[variant] + 1)

\* An AES-192 decrypt stands at its return after 13 AddRoundKey and 11
\* InvMixColumns, the last round key being number 0, each InvMixColumns
\* coming right after an AddRoundKey.
DecryptOrderSeen ==
  \E t \in Threads :
    /\ AtReturn(t) /\ frame[t].op = "decrypt" /\ variant = "AES192"
    /\ Len(Layers(frame[t].tr)) = 63
    /\ Len(CallsOf(frame[t].tr, "AddRoundKey")) = 13
    /\ Len(CallsOf(frame[t].tr, "InvMixColumns")) = 11
    /\ Accesses(frame[t].tr, "rounds")[1] = <<"ix", "rounds", 12>>
    /\ Accesses(frame[t].tr, "rounds")[13] = <<"ix", "rounds", 0>>
    /\ Layers(frame[t].tr)[7] = <<"call", "AddRoundKey", 0>>
    /\ Layers(frame[t].tr)[8] = <<"call", "InvMixColumns", 0>>
    /\ Result(t) # frame[t].arg

(***************************************************************************)
(* The layers by themselves: a state loaded from a block of the caller     *)
(* goes through one layer and then through the inverse of that layer.      *)
(***************************************************************************)
\* Blocks in which every byte takes every value 0..255, beside different
\* neighbours, and the blocks with a single one bit.
LayerBlocks ==
  {[j \in 0..15 |-> (n + 37 * j) % 256] : n \in 0..255}
    \cup {[j \in 0..15 |-> (n * (2 * j + 1) + 7 * j) % 256] : n \in 0..255}
    \cup {[j \in 0..15 |-> IF j = k THEN 2 ^ p ELSE 0] : k \in 0..15, p \in 0..7}

InitLayers ==
  /\ variant = "AES128"
  /\ build \in Builds
  /\ ctx = [c \in CtxIds |-> [r \in 0..NRounds[variant] |-> JunkState(r)]]
  /\ \E data16 \in LayerBlocks :
       buf = [t \in Threads |-> [b \in BufIds |-> IF b = 1 THEN data16 ELSE JunkBlock(1)]]
  /\ frame = [t \in Threads |-> IdleFrame]
  /\ todo = [t \in Threads |-> IF t = 1 THEN <<Call("layers", 1, 1, 2)>> ELSE <<>>]
  /\ log = [t \in Threads |-> <<>>]
  /\ ckey = [c \in CtxIds |-> NoKey]
  /\ sched = [c \in CtxIds |-> <<>>]

\* AES_state s; LoadBytes(&s, in16);
LayerEnter(t) ==
  /\ frame[t].op = "idle"
  /\ todo[t] # <<>>
  /\ Head(todo[t]).op = "layers"
  /\ frame' = [frame EXCEPT ![t] =
                 [IdleFrame EXCEPT
                    !.op = "layer", !.pc = "in",
                    !.in = Head(todo[t]).in, !.out = Head(todo[t]).out,
                    !.arg = buf[t][Head(todo[t]).in],
                    !.s = LoadBytes(JunkState(1), buf[t][Head(todo[t]).in])]]
  /\ todo' = [todo EXCEPT ![t] = Tail(@)]
  /\ UNCHANGED <<variant, build, ctx, buf, log, ckey, sched>>

\* The layer called name turns s into s2: as the first layer, or as the
\* second when the first was its inverse.  The frame keeps the states the
\* layers were applied to.
LayerStep(t, name, inverse, s2) ==
  /\ frame[t].op = "layer"
  /\ \/ frame[t].pc = "in"
     \/ frame[t].pc = "mid" /\ frame[t].tr[1] = Callee(inverse)
  /\ frame' = [frame EXCEPT ![t] =
                 [@ EXCEPT !.pc = IF frame[t].pc = "in" THEN "mid" ELSE "out",
                           !.s = s2,
                           !.w = Append(@, frame[t].s),
                           !.tr = Append(@, Callee(name))]]
  /\ UNCHANGED <<variant, build, ctx, buf, todo, log, ckey, sched>>

LayerSubBytes(t) == LayerStep(t, "SubBytes", "InvSubBytes", SubBytesOf(build, frame[t].s))

LayerInvSubBytes(t) == LayerStep(t, "InvSubBytes", "SubBytes", InvSubBytesOf(build, frame[t].s))

LayerShiftRows(t) == LayerStep(t, "ShiftRows", "InvShiftRows", ShiftRows(frame[t].s))

LayerInvShiftRows(t) == LayerStep(t, "InvShiftRows", "ShiftRows", InvShiftRows(frame[t].s))

LayerMixColumns(t) == LayerStep(t, "MixColumns", "InvMixColumns", MixColumns(frame[t].s))

LayerInvMixColumns(t) == LayerStep(t, "InvMixColumns", "MixColumns", InvMixColumns(frame[t].s))

NextLayers ==
  \E t \in Threads :
    \/ LayerEnter(t)
    \/ LayerSubBytes(t) \/ LayerInvSubBytes(t)
    \/ LayerShiftRows(t) \/ LayerInvShiftRows(t)
    \/ LayerMixColumns(t) \/ LayerInvMixColumns(t)

SpecLayers == InitLayers /\ [][NextLayers]_vars

\* The frames in which the layer called name has just been applied, as the
\* first layer or as the second.
Applied(t, name) ==
  /\ frame[t].op = "layer" /\ frame[t].pc \in {"mid", "out"}
  /\ frame[t].tr[Len(frame[t].tr)] = <<"call", name, 0>>

\* The state that layer was applied to.
Operand(t) == frame[t].w[Len(frame[t].w)]

\* Lane j of a state: the byte whose bit i is bit j of slice word i.
Lane(s, j) ==
    (IF j \in s[0] THEN 1 ELSE 0) + (IF j \in s[1] THEN 2 ELSE 0)
  + (IF j \in s[2] THEN 4 ELSE 0) + (IF j \in s[3] THEN 8 ELSE 0)
  + (IF j \in s[4] THEN 16 ELSE 0) + (IF j \in s[5] THEN 32 ELSE 0)
  + (IF j \in s[6] THEN 64 ELSE 0) + (IF j \in s[7] THEN 128 ELSE 0)

\* Every slice word is a 16-bit value.
Is16(s) == \A i \in 0..7 : s[i] \subseteq 0..15

\* GF(2^8) modulo x^8 + x^4 + x^3 + x + 1, on numbers 0..255: the product
\* by x, the product, and the inverse a^254 (0 for 0).
GfDouble(a) == IF a >= 128 THEN ByteXor((2 * a) % 256, 27) ELSE 2 * a

RECURSIVE GfMul(_, _)
GfMul(a, b) ==
  IF b = 0 THEN 0
  ELSE ByteXor(IF b % 2 = 1 THEN a ELSE 0, GfMul(GfDouble(a), b \div 2))

GfInverse(a) ==
  LET a2 == GfMul(a, a)
      a4 == GfMul(a2, a2)
      a8 == GfMul(a4, a4)
      a16 == GfMul(a8, a8)
      a32 == GfMul(a16, a16)
      a64 == GfMul(a32, a32)
      a128 == GfMul(a64, a64)
  IN  GfMul(GfMul(GfMul(a2, a4), GfMul(a8, a16)), GfMul(GfMul(a32, a64), a128))

\* The affine map of the S-box (FIPS-197 5.1.1): bit i of the result is
\* b_i + b_(i+4) + b_(i+5) + b_(i+6) + b_(i+7) + c_i, c = 0x63.
Affine(y) ==
  LET bit(n, i) == (n \div (2 ^ (i % 8))) % 2
      out(i) == (bit(y, i) + bit(y, i + 4) + bit(y, i + 5) + bit(y, i + 6) + bit(y, i + 7)
                 + bit(99, i)) % 2
  IN  out(0) + 2 * out(1) + 4 * out(2) + 8 * out(3)
      + 16 * out(4) + 32 * out(5) + 64 * out(6) + 128 * out(7)

SboxByte(x) == Affine(GfInverse(x))

\* C15: SubBytes replaces each of the 16 state bytes (lane j is bit j of the
\* 8 slice words, slice 0 the least significant) with its AES S-box value,
\* the inverse in GF(2^8) followed by the affine map with constant 0x63;
\* output lane j depends on input lane j only, for all 256 values in every
\* lane.
SubBytesIsSbox ==
  \A t \in Threads :
    Applied(t, "SubBytes") =>
      /\ Is16(frame[t].s)
      /\ \A j \in 0..15 :
           /\ Lane(frame[t].s, j) = SboxByte(Lane(Operand(t), j))
           /\ Lane(Operand(t), j) # 0 => GfMul(Lane(Operand(t), j), GfInverse(Lane(Operand(t), j))) = 1

\* SubBytes has been applied to a state whose lanes hold 0x00, 0x01 and 0x53
\* among others, giving 0x63, 0x7c and 0xed there.
SubBytesIsSboxSeen ==
  \E t \in Threads :
    /\ Applied(t, "SubBytes") /\ frame[t].pc = "mid"
    /\ \E j \in 0..15 : Lane(Operand(t), j) = 0 /\ Lane(frame[t].s, j) = 99
    /\ \E j \in 0..15 : Lane(Operand(t), j) = 1 /\ Lane(frame[t].s, j) = 124
    /\ \E j \in 0..15 : Lane(Operand(t), j) = 83 /\ Lane(frame[t].s, j) = 237

\* C16: InvSubBytes is the inverse of SubBytes: InvSubBytes(SubBytes(s)) = s
\* and SubBytes(InvSubBytes(s)) = s for every state s, for the two separate
\* functions and for the merged one, where SubBytes(s, 0) is SubBytes(s) and
\* SubBytes(s, 1) is InvSubBytes(s) on every state.
SubBytesInverse ==
  \A t \in Threads :
    /\ (Applied(t, "SubBytes") \/ Applied(t, "InvSubBytes")) =>
         /\ frame[t].pc = "out" => frame[t].s = frame[t].w[1]
         /\ frame[t].pc = "out" => frame[t].w[2] # frame[t].w[1]
    /\ Applied(t, "SubBytes") =>
         /\ frame[t].s = SubBytes(Operand(t))
         /\ frame[t].s = SubBytesInv(Operand(t), 0)
    /\ Applied(t, "InvSubBytes") =>
         /\ frame[t].s = InvSubBytes(Operand(t))
         /\ frame[t].s = SubBytesInv(Operand(t), 1)

\* Under the file with the merged function a state has gone through
\* SubBytes(s, 0) and then SubBytes(s, 1), and is what it was; both differ
\* from the state between them.
SubBytesInverseSeen ==
  \E t \in Threads :
    /\ build = "part_000"
    /\ Applied(t, "InvSubBytes") /\ frame[t].pc = "out"
    /\ frame[t].s = frame[t].w[1]
    /\ frame[t].w[2] = SubBytes(frame[t].w[1])
    /\ frame[t].w[2] # frame[t].s
    /\ frame[t].arg = [j \in 0..15 |-> (83 + 37 * j) % 256]

\* C17: in each of the 8 slice words ShiftRows moves the bit at position
\* 4r + ((c + r) mod 4) to position 4r + c, for all rows r and columns c
\* (row r goes left by r columns, row 0 stays), and InvShiftRows is its
\* inverse: InvShiftRows(ShiftRows(s)) = s = ShiftRows(InvShiftRows(s)).
ShiftRowsMoves ==
  \A t \in Threads :
    /\ Applied(t, "ShiftRows") =>
         \A i \in 0..7 :
           /\ frame[t].s[i] \subseteq 0..15
           /\ \A r \in 0..3 : \A c \in 0..3 :
                ((4 * r + c) \in frame[t].s[i]) <=> ((4 * r + ((c + r) % 4)) \in Operand(t)[i])
    /\ (Applied(t, "ShiftRows") \/ Applied(t, "InvShiftRows")) =>
         (frame[t].pc = "out" => frame[t].s = frame[t].w[1])

\* The block whose only one bit is bit 2 of byte 14 (c = 3, r = 2, position
\* 11 of slice 2) has gone through ShiftRows, which moved the bit to
\* position 9, and through InvShiftRows, which moved it back.
ShiftRowsMovesSeen ==
  \E t \in Threads :
    /\ Applied(t, "InvShiftRows") /\ frame[t].pc = "out"
    /\ frame[t].arg = [j \in 0..15 |-> IF j = 14 THEN 4 ELSE 0]
    /\ frame[t].w[1] = [i \in 0..7 |-> IF i = 2 THEN {11} ELSE {}]
    /\ frame[t].w[2] = [i \in 0..7 |-> IF i = 2 THEN {9} ELSE {}]
    /\ frame[t].s = frame[t].w[1]

\* The byte of row r and column c of a state (rows and columns mod 4).
ByteAt(s, r, c) == Lane(s, 4 * (r % 4) + (c % 4))

ByteXor4(a, b, c, d) == ByteXor(ByteXor(a, b), ByteXor(c, d))

\* C18: MixColumns yields for each row r and column c the byte
\* 02 * a(r,c) xor 03 * a(r+1,c) xor a(r+2,c) xor a(r+3,c), rows mod 4, the
\* products in GF(2^8) modulo x^8 + x^4 + x^3 + x + 1; every slice word
\* stays a 16-bit value.
MixColumnsIsProduct ==
  \A t \in Threads :
    Applied(t, "MixColumns") =>
      /\ Is16(frame[t].s)
      /\ \A r \in 0..3 : \A c \in 0..3 :
           ByteAt(frame[t].s, r, c) =
             ByteXor4(GfMul(ByteAt(Operand(t), r, c), 2), GfMul(ByteAt(Operand(t), r + 1, c), 3),
                      ByteAt(Operand(t), r + 2, c), ByteAt(Operand(t), r + 3, c))

\* MixColumns has been applied to the state of the block c8 ed 12 37 ...:
\* a column with two different bytes on top and a byte above 0x7f (whose
\* product by 02 is reduced) has a new first byte.
MixColumnsIsProductSeen ==
  \E t \in Threads :
    /\ Applied(t, "MixColumns") /\ frame[t].pc = "mid"
    /\ \E c \in 0..3 :
         /\ ByteAt(Operand(t), 0, c) # ByteAt(Operand(t), 1, c)
         /\ ByteAt(Operand(t), 3, c) >= 128
         /\ ByteAt(frame[t].s, 0, c) # ByteAt(Operand(t), 0, c)
    /\ frame[t].s # Operand(t)
    /\ frame[t].arg = [j \in 0..15 |-> (200 + 37 * j) % 256]

\* C19: InvMixColumns is the inverse of MixColumns:
\* InvMixColumns(MixColumns(s)) = s and MixColumns(InvMixColumns(s)) = s for
\* every state s; its output byte is 0e * a(r,c) xor 0b * a(r+1,c) xor
\* 0d * a(r+2,c) xor 09 * a(r+3,c) in GF(2^8).
MixColumnsInverse ==
  \A t \in Threads :
    /\ (Applied(t, "MixColumns") \/ Applied(t, "InvMixColumns")) =>
         (frame[t].pc = "out" => frame[t].s = frame[t].w[1])
    /\ Applied(t, "InvMixColumns") =>
         /\ Is16(frame[t].s)
         /\ \A r \in 0..3 : \A c \in 0..3 :
              ByteAt(frame[t].s, r, c) =
                ByteXor4(GfMul(ByteAt(Operand(t), r, c), 14), GfMul(ByteAt(Operand(t), r + 1, c), 11),
                         GfMul(ByteAt(Operand(t), r + 2, c), 13), GfMul(ByteAt(Operand(t), r + 3, c), 9))

\* A state has gone through InvMixColumns and then MixColumns and is what it
\* was, the state between them being another.
MixColumnsInverseSeen ==
  \E t \in Threads :
    /\ Applied(t, "MixColumns") /\ frame[t].pc = "out"
    /\ frame[t].tr[1] = <<"call", "InvMixColumns", 0>>
    /\ frame[t].s = frame[t].w[1]
    /\ frame[t].w[2] # frame[t].w[1]
    /\ frame[t].arg = [j \in 0..15 |-> (200 + 37 * j) % 256]

====
